---- MODULE Spec2Model ----
(***************************************************************************)
(* Timer subsystem of TEC Office (src/src/utils/timer.py): PomodoroTimer   *)
(* and CountdownTimer, their threading.Timer wake-ups and the JSON record  *)
(* PomodoroTimer persists.                                                 *)
(*                                                                         *)
(* Time is a discrete clock `now`; one tick is one "minute" of the code.   *)
(* A datetime is the tick it denotes, None is the absent value.  The       *)
(* record's last_updated field is written but never read by the code and   *)
(* is left out.  Line 250 of timer.py is indented by a lost line break; it *)
(* is read at the indentation of the lines after it (outside the `if`).    *)
(***************************************************************************)
EXTENDS Integers, Sequences, FiniteSets, TLC

VARIABLES
    now,        \* the clock (datetime.utcnow())
    pomodoro,   \* the PomodoroTimer object
    countdown,  \* the CountdownTimer object
    timers,     \* the threading.Timer objects and where their threads stand
    file,       \* the PomodoroTimer's state file
    dynamodb,   \* the item of table TEC_PomodoroTimers for the user_id
    last,       \* the last operation run to its end, and what it triggered
    caller,     \* where the calling thread stands inside an operation
    ghost,      \* what has happened since the countdown in progress began
    agent       \* the AirthAgent: pomodoro_timer and its last command's result

vars == <<now, pomodoro, countdown, timers, file, dynamodb, last, caller, ghost, agent>>

----------------------------------------------------------------------------
(* Bounds *)

MaxTime == 3

MaxPomodoros == 3

MaxTimers == 2

\* The clock's bound in the statement-level specifications.
MaxRaceTime == 2
\* The callbacks registered with the two timers together.
MaxCallbacks == 2

----------------------------------------------------------------------------
(* Values *)

\* Python's None, where a phase string is expected.
None == "None"

\* Python's None, where a datetime is expected (end_time).
NoTime == -1

\* Python's None, where a threading.Timer is expected (timer_thread).
NoThread == 0

\* The state file is a sequence: empty when the file does not exist,
\* else the one record it holds.
NoFile == <<>>

TimerIds == 1..MaxTimers

\* Arguments a caller may pass to start(phase): no argument, the three
\* phases, and two strings start() does not know.
PhaseArgs == {None, "work", "short_break", "long_break", "idle", "nap"}

\* Constructor arguments (work, short break, long break in ticks; interval).
\* The durations keep the proportions of the repository's tests
\* (0.05, 0.05, 0.1).
ConstructorArgs ==
    { [work_minutes |-> 1, short_break_minutes |-> 1,
       long_break_minutes |-> 2, long_break_interval |-> 2],
      [work_minutes |-> 1, short_break_minutes |-> 1,
       long_break_minutes |-> 2, long_break_interval |-> 3] }

Max(a, b) == IF a >= b THEN a ELSE b

\* A threading.Timer: where its thread stands, when its wait ends, and the
\* timer object whose _timer_complete it calls.
FreeTimer == [st |-> "free", deadline |-> 0, function |-> None]

\* The events of the two timers' callbacks dicts.
PomodoroEvents == {"on_complete", "on_start", "on_pause", "on_resume", "on_cancel"}

CountdownEvents == {"on_complete", "on_start", "on_cancel"}

\* A registered callback is what it does when it is called.
CallbackArgs == {"returns", "raises"}

----------------------------------------------------------------------------
(* threading.Timer *)

\* Timer.cancel(): sets the finished event; a thread still waiting exits
\* without calling the function, a thread past the wait is not stopped.
Timer_cancel(ts, id) ==
    IF ts[id].st = "waiting" THEN [ts EXCEPT ![id] = FreeTimer] ELSE ts

\* An unused Timer object that nothing refers to.
FreeIds(ts) == {i \in TimerIds : ts[i].st = "free"}

\* threading.Timer(...): a new object; the least unused identity.
NewId(ts) == CHOOSE i \in FreeIds(ts) : \A j \in FreeIds(ts) : i <= j

----------------------------------------------------------------------------
(* PomodoroTimer; w is the world an operation runs in:                     *)
(*   self   the PomodoroTimer object                                       *)
(*   countdown  the CountdownTimer object                                  *)
(*   timers the threading.Timer objects                                    *)
(*   file   data/storage/pomodoro_<user_id>.json                           *)
(*   dynamodb  the item of table TEC_PomodoroTimers for the user_id         *)
(*   env    what the calls to the stores do during the operation            *)
(*   cb     the callback events triggered so far by the operation          *)
(*   invoked  the callbacks called so far by the operation, as <<event, i>> *)
(*          for the i-th callback registered for the event                 *)
(*   raised whether the operation ended by raising an exception            *)
(*   time_remaining  the local variable of pause(), None elsewhere         *)

\* What a call to the table does: it succeeds, or raises
\* botocore.exceptions.ClientError (an error response of the service), or
\* raises another exception of botocore (EndpointConnectionError: the
\* service cannot be reached), which is not a ClientError.
AwsOutcomes == {"ok", "ClientError", "EndpointConnectionError"}

\* The stores work: put_item and get_item succeed, the file can be read.
NoFailure == [put_item |-> "ok", get_item |-> "ok", read |-> TRUE]

World ==
    [self |-> pomodoro, countdown |-> countdown, timers |-> timers, file |-> file,
     dynamodb |-> dynamodb, env |-> NoFailure,
     cb |-> <<>>, invoked |-> <<>>, raised |-> FALSE, time_remaining |-> NoTime]

\* __init__ up to the call of _load_state.
PomodoroTimer_init(args) ==
    [work_minutes |-> args.work_minutes,
     short_break_minutes |-> args.short_break_minutes,
     long_break_minutes |-> args.long_break_minutes,
     long_break_interval |-> args.long_break_interval,
     active |-> FALSE,
     timer_thread |-> NoThread,
     completed_pomodoros |-> 0,
     current_phase |-> "idle",
     end_time |-> NoTime,
     callbacks |-> [e \in PomodoroEvents |-> <<>>],
     use_aws |-> FALSE,
     table |-> None]

\* __init__(use_aws=True) up to the call of _load_state: _initialize_aws,
\* where a ClientError turns use_aws off.
initialize_aws(self, outcome) ==
    IF outcome = "ok"
    THEN [self EXCEPT !.use_aws = TRUE, !.table = "TEC_PomodoroTimers"]
    ELSE [self EXCEPT !.use_aws = FALSE]

\* The dict _save_state builds.
StateDict(self) ==
    [work_minutes |-> self.work_minutes,
     short_break_minutes |-> self.short_break_minutes,
     long_break_minutes |-> self.long_break_minutes,
     long_break_interval |-> self.long_break_interval,
     completed_pomodoros |-> self.completed_pomodoros,
     current_phase |-> self.current_phase,
     active |-> self.active,
     end_time |-> self.end_time]

\* _save_state_local; ok is whether the file write succeeds (a failure is
\* logged and swallowed).
save_state_local(w, ok) ==
    IF ok THEN [w EXCEPT !.file = <<StateDict(w.self)>>] ELSE w

\* _save_state: put_item inside `try ... except ClientError`, which falls
\* back to _save_state_local; any other exception leaves _save_state.
save_state(w, ok) ==
    IF w.self.use_aws /\ w.self.table # None
    THEN CASE w.env.put_item = "ok" -> [w EXCEPT !.dynamodb = <<StateDict(w.self)>>]
           [] w.env.put_item = "ClientError" -> save_state_local(w, ok)
           [] OTHER -> [w EXCEPT !.raised = TRUE]
    ELSE save_state_local(w, ok)

\* The loop over the callbacks of one event that stops at the first
\* callback that raises.
RECURSIVE run_callbacks_abort(_, _, _, _)
run_callbacks_abort(callbacks, event, i, invoked) ==
    IF i > Len(callbacks) THEN invoked
    ELSE IF callbacks[i] = "raises" THEN Append(invoked, <<event, i>>)
    ELSE run_callbacks_abort(callbacks, event, i + 1, Append(invoked, <<event, i>>))

\* `for callback in self.callbacks[event]: try: callback(self) except
\* Exception: logger.error(...)`, from the i-th callback on: the callback
\* is called, and whether it returns or raises the loop goes on.
RECURSIVE run_callbacks(_, _, _, _)
run_callbacks(callbacks, event, i, invoked) ==
    IF i > Len(callbacks) THEN invoked
    ELSE IF callbacks[i] = "raises"
    THEN run_callbacks(callbacks, event, i + 1, Append(invoked, <<event, i>>))
    ELSE run_callbacks(callbacks, event, i + 1, Append(invoked, <<event, i>>))

\* _trigger_callbacks(event); it is not reached when the statements before
\* it have raised.
trigger_callbacks(w, event) ==
    IF w.raised THEN w
    ELSE IF event \in DOMAIN w.self.callbacks
    THEN [w EXCEPT !.cb = Append(@, event),
                   !.invoked = run_callbacks(w.self.callbacks[event], event, 1, @)]
    ELSE w

\* _start_timer_thread, first statement: cancel the previous Timer.
cancel_previous(w) ==
    IF w.self.timer_thread # NoThread
    THEN [w EXCEPT !.timers = Timer_cancel(@, w.self.timer_thread)]
    ELSE w

\* _start_timer_thread, for end_time # None.  (With end_time None the
\* subtraction raises TypeError after cancel_previous: see resume.)
start_timer_thread(w) ==
    LET w1 == cancel_previous(w)
        time_remaining == Max(0, w.self.end_time - now)
        id == NewId(w1.timers)
    IN  [w1 EXCEPT !.timers[id] = [st |-> "waiting", deadline |-> now + time_remaining,
                                          function |-> "PomodoroTimer"],
                   !.self.timer_thread = id]

\* A Timer object is available for _start_timer_thread to create.
CanSchedule(w) == FreeIds(cancel_previous(w).timers) # {}

\* advance_phase with the break chosen from the count before the increment.
advance_phase_stale_count(self) ==
    IF self.current_phase = "work"
    THEN [self EXCEPT !.completed_pomodoros = @ + 1,
                      !.current_phase =
                          IF self.completed_pomodoros % self.long_break_interval = 0
                          THEN "long_break" ELSE "short_break"]
    ELSE IF self.current_phase \in {"short_break", "long_break"}
    THEN [self EXCEPT !.current_phase = "work"]
    ELSE self

\* advance_phase with a long break followed by a short break.
advance_phase_break_after_break(self) ==
    IF self.current_phase = "work"
    THEN LET n == self.completed_pomodoros + 1
         IN [self EXCEPT !.completed_pomodoros = n,
                         !.current_phase = IF n % self.long_break_interval = 0
                                           THEN "long_break" ELSE "short_break"]
    ELSE IF self.current_phase = "short_break"
    THEN [self EXCEPT !.current_phase = "work"]
    ELSE IF self.current_phase = "long_break"
    THEN [self EXCEPT !.current_phase = "short_break"]
    ELSE self

\* _timer_complete, "Update state based on completed phase"
advance_phase(self) ==
    IF self.current_phase = "work"
    THEN LET n == self.completed_pomodoros + 1
         IN [self EXCEPT !.completed_pomodoros = n,
                         !.current_phase = IF n % self.long_break_interval = 0
                                           THEN "long_break" ELSE "short_break"]
    ELSE IF self.current_phase \in {"short_break", "long_break"}
    THEN [self EXCEPT !.current_phase = "work"]
    ELSE self

\* _timer_complete
timer_complete(w, ok) ==
    IF ~w.self.active THEN w
    ELSE
      LET s1 == advance_phase(w.self)
          s2 == [s1 EXCEPT !.active = FALSE, !.timer_thread = NoThread]
      IN trigger_callbacks(save_state([w EXCEPT !.self = s2], ok), "on_complete")

\* cancel_update that also clears the count.
cancel_update_reset_count(self) ==
    [self EXCEPT !.active = FALSE, !.current_phase = "idle", !.end_time = NoTime,
                 !.completed_pomodoros = 0]

\* cancel, "Update state"
cancel_update(self) ==
    [self EXCEPT !.active = FALSE, !.current_phase = "idle", !.end_time = NoTime]

\* `if self.timer_thread: self.timer_thread.cancel(); self.timer_thread = None`
stop_timer_thread(w) ==
    IF w.self.timer_thread # NoThread
    THEN [w EXCEPT !.timers = Timer_cancel(@, w.self.timer_thread),
                   !.self.timer_thread = NoThread]
    ELSE w

\* _load_state: get_item raises an exception that `except ClientError` does
\* not catch, and the exception leaves _load_state and the constructor.
aws_load_raises(w) ==
    /\ w.self.use_aws /\ w.self.table # None
    /\ w.env.get_item \notin {"ok", "ClientError"}

\* _load_state: `state` after the two attempts to load it, NoFile for None:
\* the item of the table if use_aws and the table has one, else the content
\* of the file if it exists and can be read.
stored_state(w) ==
    IF /\ w.self.use_aws /\ w.self.table # None
       /\ w.env.get_item = "ok" /\ w.dynamodb # NoFile
    THEN w.dynamodb
    ELSE IF w.env.read THEN w.file ELSE NoFile

\* _load_state that restores an active record without _start_timer_thread.
load_state_no_wakeup(w) ==
    IF aws_load_raises(w) THEN [w EXCEPT !.raised = TRUE]
    ELSE IF stored_state(w) = NoFile THEN w
    ELSE
      LET state == stored_state(w)[1]
          w1 == [w EXCEPT !.self.work_minutes = state.work_minutes,
                          !.self.short_break_minutes = state.short_break_minutes,
                          !.self.long_break_minutes = state.long_break_minutes,
                          !.self.long_break_interval = state.long_break_interval,
                          !.self.completed_pomodoros = state.completed_pomodoros,
                          !.self.current_phase = state.current_phase]
      IN IF state.active /\ state.end_time # NoTime /\ state.end_time > now
         THEN [w1 EXCEPT !.self.active = TRUE, !.self.end_time = state.end_time]
         ELSE w1

\* _load_state on a freshly initialised object.
load_state(w) ==
    IF aws_load_raises(w) THEN [w EXCEPT !.raised = TRUE]
    ELSE IF stored_state(w) = NoFile THEN w
    ELSE
      LET state == stored_state(w)[1]
          w1 == [w EXCEPT !.self.work_minutes = state.work_minutes,
                          !.self.short_break_minutes = state.short_break_minutes,
                          !.self.long_break_minutes = state.long_break_minutes,
                          !.self.long_break_interval = state.long_break_interval,
                          !.self.completed_pomodoros = state.completed_pomodoros,
                          !.self.current_phase = state.current_phase]
      IN IF state.active /\ state.end_time # NoTime /\ state.end_time > now
         THEN start_timer_thread([w1 EXCEPT !.self.active = TRUE,
                                            !.self.end_time = state.end_time])
         ELSE w1

\* CountdownTimer.__init__
CountdownTimer_init ==
    [active |-> FALSE, timer_thread |-> NoThread, end_time |-> NoTime,
     timer_name |-> None,
     callbacks |-> [e \in CountdownEvents |-> <<>>]]

\* What skip() found when it was called; NoEntry in any other operation.
NoEntry == [active |-> FALSE, current_phase |-> None, completed_pomodoros |-> 0]

\* The calling thread outside any operation.
Idle == [pc |-> "idle", ret |-> "idle", minutes |-> 0, timer_name |-> None, phase |-> None,
         entry |-> NoEntry]

\* fired: the callbacks triggered; phase0, cp0: current_phase and
\* completed_pomodoros when the countdown began; raised: an operation has
\* ended by raising.
NoGhost == [fired |-> <<>>, phase0 |-> None, cp0 |-> 0, raised |-> FALSE]

\* AirthAgent.__init__: no timer yet, no command run.  A result is the
\* method and the action it answers and its "success" entry.
AirthAgent_init ==
    [pomodoro_timer |-> None,
     countdown_timer |-> None,
     result |-> [method |-> None, action |-> None, success |-> FALSE,
                 active_timers |-> <<>>, cancelled_timers |-> <<>>]]

\* The code reaches a Timer object only through the timer_thread of the two
\* timers, so which identity a Timer has does not matter: the Timers are
\* kept in the order of Key, the ones a timer_thread refers to first among
\* equals.
Key(timer) ==
    LET k == CASE timer.st = "free" -> 0
               [] timer.st = "fired" -> 1
               [] OTHER -> 2 + timer.deadline
    IN 2 * k + (IF timer.function = "CountdownTimer" THEN 1 ELSE 0)

Sorted(w) ==
    LET ts == w.timers
        ref == w.self.timer_thread
        cref == w.countdown.timer_thread
        Rank(i) == IF i = ref THEN 0 ELSE IF i = cref THEN 1 ELSE 2
        Before(j, i) ==
            \/ Key(ts[j]) > Key(ts[i])
            \/ /\ Key(ts[j]) = Key(ts[i])
               /\ \/ Rank(j) < Rank(i)
                  \/ Rank(j) = Rank(i) /\ j < i
        pos == [i \in TimerIds |->
                  1 + Cardinality({j \in TimerIds \ {i} : Before(j, i)})]
    IN IF \A i \in TimerIds : pos[i] = i THEN w
       ELSE [w EXCEPT !.timers = [k \in TimerIds |->
                                    ts[CHOOSE i \in TimerIds : pos[i] = k]],
                      !.self.timer_thread = IF ref = NoThread THEN NoThread ELSE pos[ref],
                      !.countdown.timer_thread =
                          IF cref = NoThread THEN NoThread ELSE pos[cref]]

\* The end of an operation: the world becomes the state.
Commit(w, op) ==
    \E v \in {w} : \E sw \in {Sorted(v)} :
       /\ pomodoro' = sw.self
       /\ countdown' = sw.countdown
       /\ timers' = sw.timers
       /\ file' = sw.file
       /\ dynamodb' = sw.dynamodb
       /\ last' = [op |-> op, cb |-> sw.cb, raised |-> sw.raised,
                   time_remaining |-> sw.time_remaining, invoked |-> sw.invoked]
    /\ UNCHANGED <<now, caller, ghost, agent>>

----------------------------------------------------------------------------
Init ==
    /\ now = 0
    /\ \E args \in ConstructorArgs : pomodoro = PomodoroTimer_init(args)
    /\ countdown = CountdownTimer_init
    /\ caller = Idle
    /\ ghost = NoGhost
    /\ timers = [i \in TimerIds |-> FreeTimer]
    /\ file = NoFile
    /\ dynamodb = NoFile
    /\ agent = AirthAgent_init
    /\ last = [op |-> "init", cb |-> <<>>, raised |-> FALSE, time_remaining |-> NoTime,
               invoked |-> <<>>]

Tick ==
    /\ now < MaxTime
    /\ now' = now + 1
    /\ UNCHANGED <<pomodoro, countdown, timers, file, dynamodb, last, caller, ghost, agent>>

\* start: the phase chosen when the argument is None (`if not phase:`); a
\* current_phase outside the four known values leaves it None.
start_phase(self, phase) ==
    IF phase = None
    THEN IF self.current_phase \in {"idle", "work", "short_break", "long_break"}
         THEN "work" ELSE None
    ELSE phase

\* start(phase) without the check of active at line 206.
start_unchecked(w, phase, ok) ==
    LET s == w.self
        ph == start_phase(s, phase)
        w1 == [w EXCEPT !.self.current_phase = ph]
        duration_minutes == CASE ph = "work" -> s.work_minutes
                              [] ph = "short_break" -> s.short_break_minutes
                              [] ph = "long_break" -> s.long_break_minutes
                              [] OTHER -> 0
        w2 == [w1 EXCEPT !.self.end_time = now + duration_minutes,
                         !.self.active = TRUE]
    IN IF ph \notin {"work", "short_break", "long_break"} THEN w1
       ELSE trigger_callbacks(save_state(start_timer_thread(w2), ok), "on_start")

\* start(phase)
start(w, phase, ok) ==
    LET s == w.self
        ph == start_phase(s, phase)
        w1 == [w EXCEPT !.self.current_phase = ph]
        duration_minutes == CASE ph = "work" -> s.work_minutes
                              [] ph = "short_break" -> s.short_break_minutes
                              [] ph = "long_break" -> s.long_break_minutes
                              [] OTHER -> 0
        w2 == [w1 EXCEPT !.self.end_time = now + duration_minutes,
                         !.self.active = TRUE]
    IN IF s.active THEN w
       ELSE IF ph \notin {"work", "short_break", "long_break"} THEN w1
       ELSE trigger_callbacks(save_state(start_timer_thread(w2), ok), "on_start")

\* start(phase) reaches _start_timer_thread.
start_schedules(w, phase) ==
    /\ ~w.self.active
    /\ start_phase(w.self, phase) \in {"work", "short_break", "long_break"}

\* pause() without the check of active at line 286.
pause_unchecked(w, ok) ==
    LET s == w.self
        time_remaining == Max(0, s.end_time - now)
        w1 == stop_timer_thread(w)
        w2 == [w1 EXCEPT !.self.active = FALSE,
                         !.self.end_time = now + time_remaining,
                         !.time_remaining = time_remaining]
    IN IF s.end_time = NoTime THEN [w EXCEPT !.raised = TRUE]
       ELSE trigger_callbacks(save_state(w2, ok), "on_pause")

\* pause()
pause(w, ok) ==
    LET s == w.self
        time_remaining == Max(0, s.end_time - now)
        w1 == stop_timer_thread(w)
        w2 == [w1 EXCEPT !.self.active = FALSE,
                         !.self.end_time = now + time_remaining,
                         !.time_remaining = time_remaining]
    IN IF ~s.active THEN w
       ELSE IF s.end_time = NoTime THEN [w EXCEPT !.raised = TRUE]
       ELSE trigger_callbacks(save_state(w2, ok), "on_pause")

\* resume()
resume(w, ok) ==
    LET s == w.self
        w1 == [w EXCEPT !.self.active = TRUE]
    IN IF s.active \/ s.current_phase = "idle" THEN w
       ELSE IF s.end_time = NoTime THEN [cancel_previous(w1) EXCEPT !.raised = TRUE]
       ELSE trigger_callbacks(save_state(start_timer_thread(w1), ok), "on_resume")

\* resume() reaches the Timer's construction in _start_timer_thread.
resume_schedules(w) ==
    /\ ~w.self.active
    /\ w.self.current_phase # "idle"
    /\ w.self.end_time # NoTime

\* cancel()
cancel(w, ok) ==
    LET s == w.self
        w1 == stop_timer_thread(w)
        w2 == [w1 EXCEPT !.self = cancel_update(@)]
    IN IF ~s.active /\ s.current_phase = "idle" THEN w
       ELSE trigger_callbacks(save_state(w2, ok), "on_cancel")

\* skip()
skip(w, ok) ==
    timer_complete(IF w.self.active THEN stop_timer_thread(w) ELSE w, ok)

\* The bound on completed_pomodoros: a completion of a work phase is taken
\* only below it.
BelowMaxPomodoros(self) ==
    self.active /\ self.current_phase = "work" => self.completed_pomodoros < MaxPomodoros

Pomodoro_start(phase, ok) ==
    /\ start_schedules(World, phase) => CanSchedule(World)
    /\ Commit(start(World, phase, ok), "start")

Pomodoro_pause(ok) == Commit(pause(World, ok), "pause")

Pomodoro_resume(ok) ==
    /\ resume_schedules(World) => CanSchedule(World)
    /\ Commit(resume(World, ok), "resume")

Pomodoro_cancel(ok) == Commit(cancel(World, ok), "cancel")

Pomodoro_skip(ok) ==
    /\ BelowMaxPomodoros(pomodoro)
    /\ Commit(skip(World, ok), "skip")

\* The process ends (its daemon Timer threads with it) and a new process
\* constructs PomodoroTimer(args) for the same user_id.
Restart ==
    \E args \in ConstructorArgs :
      LET w == [World EXCEPT !.self = PomodoroTimer_init(args),
                             !.timers = [i \in TimerIds |-> FreeTimer]]
      IN Commit(load_state(w), "init")

\* Timer.run of Timer t: the wait has timed out, the finished event is
\* not set, the function is about to be called.
Fire(t) ==
    /\ timers[t].st = "waiting"
    /\ now >= timers[t].deadline
    /\ \E v \in {[World EXCEPT !.timers[t].st = "fired", !.timers[t].deadline = 0]} :
         \E w \in {Sorted(v)} :
            timers' = w.timers /\ pomodoro' = w.self /\ countdown' = w.countdown
    /\ UNCHANGED <<now, file, dynamodb, last, caller, ghost, agent>>

\* Timer t's thread runs _timer_complete and ends.
Pomodoro_timer_complete(t, ok) ==
    /\ timers[t].st = "fired"
    /\ timers[t].function = "PomodoroTimer"
    /\ BelowMaxPomodoros(pomodoro)
    /\ LET w == timer_complete(World, ok)
       IN Commit([w EXCEPT !.timers[t] = FreeTimer], "timer_complete")

\* Spec: the operations of one PomodoroTimer, each run to its end, in any
\* order with the wake-ups of its Timer threads; the state file is writable.
Next ==
    \/ Tick
    \/ \E phase \in PhaseArgs : Pomodoro_start(phase, TRUE)
    \/ Pomodoro_pause(TRUE)
    \/ Pomodoro_resume(TRUE)
    \/ Pomodoro_cancel(TRUE)
    \/ Pomodoro_skip(TRUE)
    \/ Restart
    \/ \E t \in TimerIds : Fire(t)
    \/ \E t \in TimerIds : Pomodoro_timer_complete(t, TRUE)

Spec == Init /\ [][Next]_vars

----------------------------------------------------------------------------
(* CountdownTimer, statement by statement: the calling thread runs start    *)
(* and cancel, each Timer's thread runs _timer_complete, and the threads    *)
(* interleave between statements.  A label is the line of timer.py the      *)
(* thread executes next.                                                    *)

\* Arguments of CountdownTimer.start.
MinutesArgs == {1, 2}

NameArgs == {None, "tea"}

DefaultName(minutes) == IF minutes = 1 THEN "Timer for 1 minutes" ELSE "Timer for 2 minutes"

CD_frame == UNCHANGED <<now, pomodoro, file, dynamodb, last, agent>>

\* The clock of the statement-level specifications.
RaceTick ==
    /\ now < MaxRaceTime
    /\ now' = now + 1
    /\ UNCHANGED <<pomodoro, countdown, timers, file, dynamodb, last, caller, ghost, agent>>

\* The statement-level specifications construct the PomodoroTimer with the
\* interval of the repository's tests.
InitRace == Init /\ pomodoro.long_break_interval = 2

Goto(label) == caller' = [caller EXCEPT !.pc = label]

\* An exception leaves the operation.
Raise ==
    /\ caller' = Idle
    /\ ghost' = [ghost EXCEPT !.raised = TRUE]

Callback(event) == ghost' = [ghost EXCEPT !.fired = Append(@, event)]

\* The caller calls start(minutes, timer_name).
CD_call_start(minutes, name) ==
    /\ caller.pc = "idle"
    /\ caller' = [Idle EXCEPT !.pc = "L439", !.minutes = minutes, !.timer_name = name]
    /\ UNCHANGED <<countdown, timers, ghost>>
    /\ CD_frame

\* The caller calls cancel().
CD_call_cancel ==
    /\ caller.pc = "idle"
    /\ caller' = [Idle EXCEPT !.pc = "L480"]
    /\ UNCHANGED <<countdown, timers, ghost>>
    /\ CD_frame

\* start: `if self.active: self.cancel()`
CD_L439 ==
    /\ caller.pc = "L439"
    /\ caller' = IF countdown.active
                 THEN [caller EXCEPT !.pc = "L480", !.ret = "L442"]
                 ELSE [caller EXCEPT !.pc = "L442"]
    /\ UNCHANGED <<countdown, timers, ghost>>
    /\ CD_frame

\* start: timer_name and end_time
CD_L442 ==
    /\ caller.pc = "L442"
    /\ countdown' = [countdown EXCEPT
                        !.timer_name = IF caller.timer_name # None THEN caller.timer_name
                                       ELSE DefaultName(caller.minutes),
                        !.end_time = now + caller.minutes]
    /\ Goto("L444")
    /\ UNCHANGED <<timers, ghost>>
    /\ CD_frame

\* start: `self.active = True`; a new countdown begins.
CD_L444 ==
    /\ caller.pc = "L444"
    /\ countdown' = [countdown EXCEPT !.active = TRUE]
    /\ ghost' = NoGhost
    /\ Goto("L447")
    /\ UNCHANGED timers
    /\ CD_frame

\* start: time_remaining and `self.timer_thread = threading.Timer(...)`;
\* until the thread is started the deadline field holds the interval.
CD_L447 ==
    /\ caller.pc = "L447"
    /\ FreeIds(timers) # {}
    /\ LET time_remaining == Max(0, countdown.end_time - now)
           id == NewId(timers)
       IN /\ timers' = [timers EXCEPT ![id] = [st |-> "created", deadline |-> time_remaining,
                                             function |-> "CountdownTimer"]]
          /\ countdown' = [countdown EXCEPT !.timer_thread = id]
    /\ Goto("L449")
    /\ UNCHANGED ghost
    /\ CD_frame

\* start: `self.timer_thread.daemon = True; self.timer_thread.start()`;
\* with timer_thread None by now the attribute access raises.
CD_L449 ==
    /\ caller.pc = "L449"
    /\ IF countdown.timer_thread = NoThread
       THEN /\ timers' = [i \in TimerIds |->
                            IF timers[i].st = "created" THEN FreeTimer ELSE timers[i]]
            /\ Raise
       ELSE /\ timers' = [timers EXCEPT ![countdown.timer_thread] =
                            [@ EXCEPT !.st = "waiting", !.deadline = now + @]]
            /\ Goto("L453")
            /\ UNCHANGED ghost
    /\ UNCHANGED countdown
    /\ CD_frame

\* start: the on_start callbacks
CD_L453 ==
    /\ caller.pc = "L453"
    /\ Callback("on_start")
    /\ caller' = Idle
    /\ UNCHANGED <<countdown, timers>>
    /\ CD_frame

\* cancel: `if not self.active: return`
CD_L480 ==
    /\ caller.pc = "L480"
    /\ IF countdown.active THEN Goto("L484")
       ELSE caller' = IF caller.ret = "idle" THEN Idle
                      ELSE [caller EXCEPT !.pc = caller.ret, !.ret = "idle"]
    /\ UNCHANGED <<countdown, timers, ghost>>
    /\ CD_frame

\* cancel: `if self.timer_thread:`
CD_L484 ==
    /\ caller.pc = "L484"
    /\ Goto(IF countdown.timer_thread # NoThread THEN "L485" ELSE "L489")
    /\ UNCHANGED <<countdown, timers, ghost>>
    /\ CD_frame

\* cancel: `self.timer_thread.cancel()`; with timer_thread None by now the
\* attribute access raises.
CD_L485 ==
    /\ caller.pc = "L485"
    /\ IF countdown.timer_thread = NoThread
       THEN Raise /\ UNCHANGED timers
       ELSE /\ timers' = Timer_cancel(timers, countdown.timer_thread)
            /\ Goto("L486")
            /\ UNCHANGED ghost
    /\ UNCHANGED countdown
    /\ CD_frame

\* cancel: `self.timer_thread = None`
CD_L486 ==
    /\ caller.pc = "L486"
    /\ countdown' = [countdown EXCEPT !.timer_thread = NoThread]
    /\ Goto("L489")
    /\ UNCHANGED <<timers, ghost>>
    /\ CD_frame

\* cancel: `self.active = False`
CD_L489 ==
    /\ caller.pc = "L489"
    /\ countdown' = [countdown EXCEPT !.active = FALSE]
    /\ Goto("L492")
    /\ UNCHANGED <<timers, ghost>>
    /\ CD_frame

\* cancel: the on_cancel callbacks, and return
CD_L492 ==
    /\ caller.pc = "L492"
    /\ Callback("on_cancel")
    /\ caller' = IF caller.ret = "idle" THEN Idle
                 ELSE [caller EXCEPT !.pc = caller.ret, !.ret = "idle"]
    /\ UNCHANGED <<countdown, timers>>
    /\ CD_frame

\* _timer_complete on Timer t's thread: `if not self.active: return`
CD_L463(t) ==
    /\ timers[t].st = "fired"
    /\ timers[t].function = "CountdownTimer"
    /\ timers' = [timers EXCEPT ![t] = IF countdown.active
                                       THEN [@ EXCEPT !.st = "L468"] ELSE FreeTimer]
    /\ UNCHANGED <<countdown, caller, ghost>>
    /\ CD_frame

\* _timer_complete: `self.active = False`
CD_L468(t) ==
    /\ timers[t].st = "L468"
    /\ countdown' = [countdown EXCEPT !.active = FALSE]
    /\ timers' = [timers EXCEPT ![t].st = "L469"]
    /\ UNCHANGED <<caller, ghost>>
    /\ CD_frame

\* _timer_complete: `self.timer_thread = None`
CD_L469(t) ==
    /\ timers[t].st = "L469"
    /\ countdown' = [countdown EXCEPT !.timer_thread = NoThread]
    /\ timers' = [timers EXCEPT ![t].st = "L472"]
    /\ UNCHANGED <<caller, ghost>>
    /\ CD_frame

\* _timer_complete: the on_complete callbacks; the thread ends.
CD_L472(t) ==
    /\ timers[t].st = "L472"
    /\ Callback("on_complete")
    /\ timers' = [timers EXCEPT ![t] = FreeTimer]
    /\ UNCHANGED <<countdown, caller>>
    /\ CD_frame

NextRaceCountdown ==
    \/ RaceTick
    \/ \E t \in TimerIds : Fire(t)
    \/ \E m \in MinutesArgs, n \in NameArgs : CD_call_start(m, n)
    \/ CD_call_cancel
    \/ CD_L439
    \/ CD_L442
    \/ CD_L444
    \/ CD_L447
    \/ CD_L449
    \/ CD_L453
    \/ CD_L480
    \/ CD_L484
    \/ CD_L485
    \/ CD_L486
    \/ CD_L489
    \/ CD_L492
    \/ \E t \in TimerIds : CD_L463(t)
    \/ \E t \in TimerIds : CD_L468(t)
    \/ \E t \in TimerIds : CD_L469(t)
    \/ \E t \in TimerIds : CD_L472(t)

SpecRaceCountdown == InitRace /\ [][NextRaceCountdown]_vars

----------------------------------------------------------------------------
(* PomodoroTimer, statement by statement: the calling thread runs start    *)
(* and skip, each Timer's thread runs _timer_complete, and the threads      *)
(* interleave between statements.  _save_state is one step.                 *)

\* Arguments of start(phase) in this specification.
RacePhaseArgs == {None, "short_break"}

PR_frame == UNCHANGED <<now, countdown, dynamodb, last, agent>>

TCLabels == {"L257", "L263", "L264", "L267", "L273", "L275", "L276", "L279", "L282"}

\* One statement of _timer_complete at label pc, as a record of the label
\* reached ("ret": the method returns), the object, the file and the
\* callbacks triggered.
timer_complete_step(pc, p, f) ==
    LET r == [pc |-> pc, self |-> p, file |-> f, cb |-> <<>>]
    IN CASE pc = "L257" -> [r EXCEPT !.pc = IF ~p.active THEN "ret" ELSE "L263"]
         [] pc = "L263" -> [r EXCEPT !.pc = IF p.current_phase = "work" THEN "L264"
                                            ELSE IF p.current_phase \in {"short_break", "long_break"}
                                            THEN "L273" ELSE "L275"]
         [] pc = "L264" -> [r EXCEPT !.pc = "L267",
                                     !.self.completed_pomodoros = @ + 1]
         [] pc = "L267" -> [r EXCEPT !.pc = "L275",
                                     !.self.current_phase =
                                        IF p.completed_pomodoros % p.long_break_interval = 0
                                        THEN "long_break" ELSE "short_break"]
         [] pc = "L273" -> [r EXCEPT !.pc = "L275", !.self.current_phase = "work"]
         [] pc = "L275" -> [r EXCEPT !.pc = "L276", !.self.active = FALSE]
         [] pc = "L276" -> [r EXCEPT !.pc = "L279", !.self.timer_thread = NoThread]
         [] pc = "L279" -> [r EXCEPT !.pc = "L282", !.file = <<StateDict(p)>>]
         [] pc = "L282" -> [r EXCEPT !.pc = "ret", !.cb = <<"on_complete">>]

\* The caller calls start(phase).
PR_call_start(phase) ==
    /\ caller.pc = "idle"
    /\ caller' = [Idle EXCEPT !.pc = "L206", !.phase = phase]
    /\ UNCHANGED <<pomodoro, timers, file, ghost>>
    /\ PR_frame

\* The caller calls skip().
PR_call_skip ==
    /\ caller.pc = "idle"
    /\ caller' = [Idle EXCEPT !.pc = "L360",
                               !.entry = [active |-> pomodoro.active,
                                          current_phase |-> pomodoro.current_phase,
                                          completed_pomodoros |-> pomodoro.completed_pomodoros]]
    /\ UNCHANGED <<pomodoro, timers, file, ghost>>
    /\ PR_frame

\* start: `if self.active: return`
PR_L206 ==
    /\ caller.pc = "L206"
    /\ caller' = IF pomodoro.active THEN Idle ELSE [caller EXCEPT !.pc = "L211"]
    /\ UNCHANGED <<pomodoro, timers, file, ghost>>
    /\ PR_frame

\* start: `if not phase:` choose the phase from current_phase
PR_L211 ==
    /\ caller.pc = "L211"
    /\ caller' = [caller EXCEPT
                     !.pc = "L220",
                     !.phase = IF caller.phase # None THEN caller.phase
                               ELSE IF pomodoro.current_phase \in
                                         {"idle", "work", "short_break", "long_break"}
                               THEN "work" ELSE None]
    /\ UNCHANGED <<pomodoro, timers, file, ghost>>
    /\ PR_frame

\* start: `self.current_phase = phase`, and the duration or the return
\* for an unknown phase
PR_L220 ==
    /\ caller.pc = "L220"
    /\ pomodoro' = [pomodoro EXCEPT !.current_phase = caller.phase]
    /\ caller' = IF caller.phase \in {"work", "short_break", "long_break"}
                 THEN [caller EXCEPT !.pc = "L232"] ELSE Idle
    /\ UNCHANGED <<timers, file, ghost>>
    /\ PR_frame

\* start: `self.end_time = datetime.utcnow() + timedelta(minutes=duration_minutes)`
PR_L232 ==
    /\ caller.pc = "L232"
    /\ LET duration_minutes == CASE caller.phase = "work" -> pomodoro.work_minutes
                                 [] caller.phase = "short_break" -> pomodoro.short_break_minutes
                                 [] caller.phase = "long_break" -> pomodoro.long_break_minutes
       IN pomodoro' = [pomodoro EXCEPT !.end_time = now + duration_minutes]
    /\ Goto("L233")
    /\ UNCHANGED <<timers, file, ghost>>
    /\ PR_frame

\* start: `self.active = True`; a new countdown begins.
PR_L233 ==
    /\ caller.pc = "L233"
    /\ pomodoro' = [pomodoro EXCEPT !.active = TRUE]
    /\ ghost' = [NoGhost EXCEPT !.phase0 = pomodoro.current_phase,
                                !.cp0 = pomodoro.completed_pomodoros]
    /\ Goto("L248")
    /\ UNCHANGED <<timers, file>>
    /\ PR_frame

\* _start_timer_thread: `if self.timer_thread is not None:`
PR_L248 ==
    /\ caller.pc = "L248"
    /\ Goto(IF pomodoro.timer_thread # NoThread THEN "L249" ELSE "L250")
    /\ UNCHANGED <<pomodoro, timers, file, ghost>>
    /\ PR_frame

\* _start_timer_thread: `self.timer_thread.cancel()`; with timer_thread
\* None by now the attribute access raises.
PR_L249 ==
    /\ caller.pc = "L249"
    /\ IF pomodoro.timer_thread = NoThread
       THEN Raise /\ UNCHANGED timers
       ELSE /\ timers' = Timer_cancel(timers, pomodoro.timer_thread)
            /\ Goto("L250")
            /\ UNCHANGED ghost
    /\ UNCHANGED <<pomodoro, file>>
    /\ PR_frame

\* _start_timer_thread: time_remaining and
\* `self.timer_thread = threading.Timer(time_remaining, self._timer_complete)`;
\* until the thread is started the deadline field holds the interval.
PR_L250 ==
    /\ caller.pc = "L250"
    /\ FreeIds(timers) # {}
    /\ LET time_remaining == Max(0, pomodoro.end_time - now)
           id == NewId(timers)
       IN /\ timers' = [timers EXCEPT ![id] = [st |-> "created", deadline |-> time_remaining,
                                             function |-> "PomodoroTimer"]]
          /\ pomodoro' = [pomodoro EXCEPT !.timer_thread = id]
    /\ Goto("L252")
    /\ UNCHANGED <<file, ghost>>
    /\ PR_frame

\* _start_timer_thread: `self.timer_thread.daemon = True;
\* self.timer_thread.start()`; with timer_thread None by now the attribute
\* access raises.
PR_L252 ==
    /\ caller.pc = "L252"
    /\ IF pomodoro.timer_thread = NoThread
       THEN /\ timers' = [i \in TimerIds |->
                            IF timers[i].st = "created" THEN FreeTimer ELSE timers[i]]
            /\ Raise
       ELSE /\ timers' = [timers EXCEPT ![pomodoro.timer_thread] =
                            [@ EXCEPT !.st = "waiting", !.deadline = now + @]]
            /\ Goto("L239")
            /\ UNCHANGED ghost
    /\ UNCHANGED <<pomodoro, file>>
    /\ PR_frame

\* start: `self._save_state()`
PR_L239 ==
    /\ caller.pc = "L239"
    /\ file' = <<StateDict(pomodoro)>>
    /\ Goto("L242")
    /\ UNCHANGED <<pomodoro, timers, ghost>>
    /\ PR_frame

\* start: the on_start callbacks, and return
PR_L242 ==
    /\ caller.pc = "L242"
    /\ Callback("on_start")
    /\ caller' = Idle
    /\ UNCHANGED <<pomodoro, timers, file>>
    /\ PR_frame

\* skip: `if self.active and self.timer_thread:`
PR_L360 ==
    /\ caller.pc = "L360"
    /\ Goto(IF pomodoro.active /\ pomodoro.timer_thread # NoThread THEN "L361" ELSE "L257")
    /\ UNCHANGED <<pomodoro, timers, file, ghost>>
    /\ PR_frame

\* skip: `self.timer_thread.cancel()`; with timer_thread None by now the
\* attribute access raises.
PR_L361 ==
    /\ caller.pc = "L361"
    /\ IF pomodoro.timer_thread = NoThread
       THEN Raise /\ UNCHANGED timers
       ELSE /\ timers' = Timer_cancel(timers, pomodoro.timer_thread)
            /\ Goto("L362")
            /\ UNCHANGED ghost
    /\ UNCHANGED <<pomodoro, file>>
    /\ PR_frame

\* skip: `self.timer_thread = None`, then the call of _timer_complete
PR_L362 ==
    /\ caller.pc = "L362"
    /\ pomodoro' = [pomodoro EXCEPT !.timer_thread = NoThread]
    /\ Goto("L257")
    /\ UNCHANGED <<timers, file, ghost>>
    /\ PR_frame

\* skip: one statement of _timer_complete on the calling thread
PR_timer_complete_caller ==
    /\ caller.pc \in TCLabels
    /\ caller.pc = "L264" => pomodoro.completed_pomodoros < MaxPomodoros
    /\ LET r == timer_complete_step(caller.pc, pomodoro, file)
       IN /\ pomodoro' = r.self
          /\ file' = r.file
          /\ ghost' = [ghost EXCEPT !.fired = @ \o r.cb]
          /\ caller' = IF r.pc = "ret" THEN Idle ELSE [caller EXCEPT !.pc = r.pc]
    /\ UNCHANGED timers
    /\ PR_frame

\* One statement of _timer_complete on Timer t's thread; a fired Timer is
\* about to execute its first statement.
PR_timer_complete_thread(t) ==
    /\ timers[t].st \in TCLabels \cup {"fired"}
    /\ timers[t].function = "PomodoroTimer"
    /\ timers[t].st = "L264" => pomodoro.completed_pomodoros < MaxPomodoros
    /\ LET pc == IF timers[t].st = "fired" THEN "L257" ELSE timers[t].st
           r == timer_complete_step(pc, pomodoro, file)
       IN /\ pomodoro' = r.self
          /\ file' = r.file
          /\ ghost' = [ghost EXCEPT !.fired = @ \o r.cb]
          /\ timers' = [timers EXCEPT ![t] = IF r.pc = "ret" THEN FreeTimer
                                             ELSE [@ EXCEPT !.st = r.pc]]
    /\ UNCHANGED caller
    /\ PR_frame

NextRacePomodoro ==
    \/ RaceTick
    \/ \E t \in TimerIds : Fire(t)
    \/ \E phase \in RacePhaseArgs : PR_call_start(phase)
    \/ PR_call_skip
    \/ PR_L206
    \/ PR_L211
    \/ PR_L220
    \/ PR_L232
    \/ PR_L233
    \/ PR_L248
    \/ PR_L249
    \/ PR_L250
    \/ PR_L252
    \/ PR_L239
    \/ PR_L242
    \/ PR_L360
    \/ PR_L361
    \/ PR_L362
    \/ PR_timer_complete_caller
    \/ \E t \in TimerIds : PR_timer_complete_thread(t)

SpecRacePomodoro == InitRace /\ [][NextRacePomodoro]_vars

----------------------------------------------------------------------------
(* AirthAgent (src/src/agents/airth_agent.py): the commands that reach the  *)
(* PomodoroTimer.  The agent creates the timer at the first set_timer and   *)
(* registers its on_complete callback, which only logs.                     *)

\* Arguments of control_pomodoro: the three actions and an unknown one.
ActionArgs == {"pause", "resume", "skip", "stop"}

\* The end of a command: the world becomes the state, result is returned.
AgentCommit(w, method, action, success) ==
    \E v \in {w} : \E sw \in {Sorted(v)} :
       /\ pomodoro' = sw.self
       /\ countdown' = sw.countdown
       /\ timers' = sw.timers
       /\ file' = sw.file
       /\ dynamodb' = sw.dynamodb
       /\ last' = [op |-> method, cb |-> sw.cb, raised |-> sw.raised,
                   time_remaining |-> sw.time_remaining, invoked |-> sw.invoked]
       /\ agent' = [agent EXCEPT !.pomodoro_timer = "PomodoroTimer",
                                  !.result = [method |-> method, action |-> action,
                                              success |-> success,
                                              active_timers |-> <<>>,
                                              cancelled_timers |-> <<>>]]
       /\ UNCHANGED <<now, caller, ghost>>

\* A command that returns before it reaches the timer.
AgentReturn(method, action, success) ==
    /\ agent' = [agent EXCEPT !.result = [method |-> method, action |-> action,
                                          success |-> success,
                                          active_timers |-> <<>>,
                                          cancelled_timers |-> <<>>]]
    /\ UNCHANGED <<now, pomodoro, countdown, timers, file, dynamodb, last, caller, ghost>>

\* _initialize_pomodoro_timer: PomodoroTimer(...) with the durations of the
\* agent's config, which the variable pomodoro holds until then.
initialize_pomodoro_timer(w) ==
    IF agent.pomodoro_timer = None
    THEN load_state([w EXCEPT !.self = PomodoroTimer_init(w.self)])
    ELSE w

\* set_timer(minutes, "pomodoro"): an exception becomes success False.
Agent_set_timer ==
    LET w == initialize_pomodoro_timer(World)
        w1 == start(w, None, TRUE)
    IN /\ start_schedules(w, None) => CanSchedule(w)
       /\ AgentCommit(w1, "set_timer", None, ~w1.raised)

\* cancel_timer("pomodoro")
Agent_cancel_timer ==
    IF agent.pomodoro_timer # None /\ pomodoro.active
    THEN AgentCommit(cancel(World, TRUE), "cancel_timer", None, TRUE)
    ELSE AgentReturn("cancel_timer", None, FALSE)

\* control_pomodoro(action): an exception becomes success False.
Agent_control_pomodoro(action) ==
    IF agent.pomodoro_timer = None THEN AgentReturn("control_pomodoro", action, FALSE)
    ELSE CASE action = "pause" ->
                IF pomodoro.active
                THEN LET w == pause(World, TRUE)
                     IN AgentCommit(w, "control_pomodoro", action, ~w.raised)
                ELSE AgentReturn("control_pomodoro", action, FALSE)
           [] action = "resume" ->
                IF ~pomodoro.active
                THEN /\ resume_schedules(World) => CanSchedule(World)
                     /\ LET w == resume(World, TRUE)
                        IN AgentCommit(w, "control_pomodoro", action, ~w.raised)
                ELSE AgentReturn("control_pomodoro", action, FALSE)
           [] action = "skip" ->
                /\ BelowMaxPomodoros(pomodoro)
                /\ LET w == skip(World, TRUE)
                   IN AgentCommit(w, "control_pomodoro", action, ~w.raised)
           [] OTHER -> AgentReturn("control_pomodoro", action, FALSE)

\* The agent's process ends (its Timer threads with it) and a new agent is
\* constructed; the state file stays.
AgentRestart ==
    /\ agent.pomodoro_timer # None
    /\ agent' = AirthAgent_init
    /\ pomodoro' = PomodoroTimer_init(pomodoro)
    /\ timers' = [i \in TimerIds |-> FreeTimer]
    /\ last' = [op |-> "init", cb |-> <<>>, raised |-> FALSE, time_remaining |-> NoTime,
               invoked |-> <<>>]
    /\ UNCHANGED <<now, countdown, file, dynamodb, caller, ghost>>

\* SpecAgent: the commands of one AirthAgent, each run to its end, in any
\* order with the wake-ups of the timer's Timer threads.
NextAgent ==
    \/ Tick
    \/ Agent_set_timer
    \/ Agent_cancel_timer
    \/ \E action \in ActionArgs : Agent_control_pomodoro(action)
    \/ AgentRestart
    \/ \E t \in TimerIds : Fire(t)
    \/ \E t \in TimerIds : Pomodoro_timer_complete(t, TRUE)

SpecAgent == Init /\ [][NextAgent]_vars

----------------------------------------------------------------------------
(* CountdownTimer, each operation run to its end.  One tick is one minute;  *)
(* a number of seconds is sixty times the number of ticks.                  *)

\* The loops `for callback in self.callbacks[event]` of CountdownTimer.
countdown_callbacks(w, event) ==
    [w EXCEPT !.cb = Append(@, event),
              !.invoked = run_callbacks(w.countdown.callbacks[event], event, 1, @)]

\* CountdownTimer.cancel()
countdown_cancel(w) ==
    LET c == w.countdown
        w1 == IF c.timer_thread # NoThread
              THEN [w EXCEPT !.timers = Timer_cancel(@, c.timer_thread),
                             !.countdown.timer_thread = NoThread]
              ELSE w
        w2 == [w1 EXCEPT !.countdown.active = FALSE]
    IN IF ~c.active THEN w
       ELSE countdown_callbacks(w2, "on_cancel")

\* CountdownTimer.start(minutes, timer_name)
countdown_start(w, minutes, timer_name) ==
    LET w1 == IF w.countdown.active THEN countdown_cancel(w) ELSE w
        id == NewId(w1.timers)
        end_time == now + minutes
        time_remaining == Max(0, end_time - now)
        w2 == [w1 EXCEPT !.countdown.timer_name =
                             IF timer_name = None THEN DefaultName(minutes) ELSE timer_name,
                         !.countdown.end_time = end_time,
                         !.countdown.active = TRUE,
                         !.countdown.timer_thread = id,
                         !.timers[id] = [st |-> "waiting", deadline |-> now + time_remaining,
                                         function |-> "CountdownTimer"]]
    IN countdown_callbacks(w2, "on_start")

\* A Timer object is available for CountdownTimer.start to create.
CountdownCanSchedule(w) ==
    FreeIds((IF w.countdown.active THEN countdown_cancel(w) ELSE w).timers) # {}

\* CountdownTimer._timer_complete
countdown_timer_complete(w) ==
    IF ~w.countdown.active THEN w
    ELSE countdown_callbacks([w EXCEPT !.countdown.active = FALSE,
                                       !.countdown.timer_thread = NoThread],
                             "on_complete")

\* The absent "time_remaining_seconds" entry of a status.
NoSeconds == -1

\* CountdownTimer.get_status() without the max(0, ...).
countdown_get_status_no_max(c) ==
    IF c.active /\ c.end_time # NoTime
    THEN [active |-> c.active, name |-> c.timer_name,
          time_remaining_seconds |-> 60 * (c.end_time - now)]
    ELSE [active |-> c.active, name |-> c.timer_name, time_remaining_seconds |-> NoSeconds]

\* CountdownTimer.get_status(); time_remaining_formatted is derived from
\* time_remaining_seconds and left out.
countdown_get_status(c) ==
    IF c.active /\ c.end_time # NoTime
    THEN [active |-> c.active, name |-> c.timer_name,
          time_remaining_seconds |-> Max(0, 60 * (c.end_time - now))]
    ELSE [active |-> c.active, name |-> c.timer_name, time_remaining_seconds |-> NoSeconds]

Countdown_start(minutes, timer_name) ==
    /\ now + minutes <= MaxTime
    /\ CountdownCanSchedule(World)
    /\ Commit(countdown_start(World, minutes, timer_name), "countdown_start")

Countdown_cancel == Commit(countdown_cancel(World), "countdown_cancel")

\* Timer t's thread runs CountdownTimer._timer_complete and ends.
Countdown_timer_complete(t) ==
    /\ timers[t].st = "fired"
    /\ timers[t].function = "CountdownTimer"
    /\ LET w == countdown_timer_complete(World)
       IN Commit([w EXCEPT !.timers[t] = FreeTimer], "countdown_timer_complete")

\* SpecCountdown: the operations of one CountdownTimer, each run to its end,
\* in any order with the wake-ups of its Timer threads.
NextCountdown ==
    \/ Tick
    \/ \E minutes \in MinutesArgs, timer_name \in NameArgs :
          Countdown_start(minutes, timer_name)
    \/ Countdown_cancel
    \/ \E t \in TimerIds : Fire(t)
    \/ \E t \in TimerIds : Countdown_timer_complete(t)

SpecCountdown == InitRace /\ [][NextCountdown]_vars

----------------------------------------------------------------------------
(* Callbacks: both timers with callbacks registered by add_callback.  A     *)
(* callback is what it does when called: it returns or it raises.           *)

\* Arguments of add_callback: the events of either timer and an unknown one.
EventArgs == PomodoroEvents \cup {"on_tick"}

RECURSIVE SumLen(_, _)
SumLen(callbacks, events) ==
    IF events = {} THEN 0
    ELSE LET e == CHOOSE x \in events : TRUE
         IN Len(callbacks[e]) + SumLen(callbacks, events \ {e})

\* The number of callbacks registered with the two timers.
NumCallbacks ==
    SumLen(pomodoro.callbacks, PomodoroEvents) + SumLen(countdown.callbacks, CountdownEvents)

\* PomodoroTimer.add_callback(event, callback)
add_callback(self, event, callback) ==
    IF event \in DOMAIN self.callbacks
    THEN [self EXCEPT !.callbacks[event] = Append(@, callback)]
    ELSE self

\* CountdownTimer.add_callback(event, callback)
countdown_add_callback(self, event, callback) ==
    IF event \in DOMAIN self.callbacks
    THEN [self EXCEPT !.callbacks[event] = Append(@, callback)]
    ELSE self

\* The callbacks are registered with the timers as constructed, before their
\* first operation, as AirthAgent and the tests register them.
Registering == now = 0 /\ last.op \in {"init", "add_callback", "countdown_add_callback"}

Pomodoro_add_callback(event, callback) ==
    /\ Registering
    /\ NumCallbacks < MaxCallbacks
    /\ Commit([World EXCEPT !.self = add_callback(@, event, callback)], "add_callback")

Countdown_add_callback(event, callback) ==
    /\ Registering
    /\ NumCallbacks < MaxCallbacks
    /\ Commit([World EXCEPT !.countdown = countdown_add_callback(@, event, callback)],
              "countdown_add_callback")

\* The two timers share no state, and a behaviour of SpecCallbacks uses one
\* of them: the PomodoroTimer while the CountdownTimer is as constructed,
\* the CountdownTimer while the PomodoroTimer is.
PomodoroInUse == countdown = CountdownTimer_init

CountdownInUse ==
    /\ file = NoFile
    /\ ~pomodoro.active
    /\ SumLen(pomodoro.callbacks, PomodoroEvents) = 0

\* SpecCallbacks: callbacks are registered with a PomodoroTimer or a
\* CountdownTimer, whose operations run to their end in any order with the
\* wake-ups of its Timer threads.
NextCallbacks ==
    \/ RaceTick
    \/ \E event \in EventArgs, callback \in CallbackArgs :
          PomodoroInUse /\ Pomodoro_add_callback(event, callback)
    \/ \E event \in EventArgs, callback \in CallbackArgs :
          CountdownInUse /\ Countdown_add_callback(event, callback)
    \/ PomodoroInUse /\ Pomodoro_start(None, TRUE)
    \/ PomodoroInUse /\ Pomodoro_pause(TRUE)
    \/ PomodoroInUse /\ Pomodoro_resume(TRUE)
    \/ PomodoroInUse /\ Pomodoro_cancel(TRUE)
    \/ PomodoroInUse /\ Pomodoro_skip(TRUE)
    \/ CountdownInUse /\ Countdown_start(1, None)
    \/ CountdownInUse /\ Countdown_cancel
    \/ \E t \in TimerIds : Fire(t)
    \/ \E t \in TimerIds : Pomodoro_timer_complete(t, TRUE)
    \/ \E t \in TimerIds : Countdown_timer_complete(t)

SpecCallbacks == InitRace /\ [][NextCallbacks]_vars

----------------------------------------------------------------------------
(* Both timers under a fair scheduler: the clock advances, a Timer thread   *)
(* whose wait is over leaves the wait, and a thread that has left the wait  *)
(* runs _timer_complete.                                                    *)

\* A PomodoroTimer.start() whose phase ends within the clock's bound.
Live_start ==
    /\ start_schedules(World, None) =>
          CanSchedule(World) /\ start(World, None, TRUE).self.end_time <= MaxTime
    /\ Pomodoro_start(None, TRUE)

NextLive ==
    \/ Tick
    \/ Live_start
    \/ Pomodoro_pause(TRUE)
    \/ Pomodoro_resume(TRUE)
    \/ Pomodoro_cancel(TRUE)
    \/ Pomodoro_skip(TRUE)
    \/ \E minutes \in MinutesArgs : Countdown_start(minutes, None)
    \/ Countdown_cancel
    \/ \E t \in TimerIds : Fire(t)
    \/ \E t \in TimerIds : Pomodoro_timer_complete(t, TRUE)
    \/ \E t \in TimerIds : Countdown_timer_complete(t)

Fairness ==
    /\ WF_vars(Tick)
    /\ WF_vars(\E t \in TimerIds : timers[t].function = "PomodoroTimer" /\ Fire(t))
    /\ WF_vars(\E t \in TimerIds : timers[t].function = "CountdownTimer" /\ Fire(t))
    /\ WF_vars(\E t \in TimerIds : Pomodoro_timer_complete(t, TRUE))
    /\ WF_vars(\E t \in TimerIds : Countdown_timer_complete(t))

SpecLive == InitRace /\ [][NextLive]_vars /\ Fairness

----------------------------------------------------------------------------
(* Persistence: a PomodoroTimer constructed with use_aws = True or False,   *)
(* whose table and state file may fail at each call.                        *)

\* The operations that save the state.
OperationArgs == {"start", "pause", "resume", "cancel", "skip"}

\* What put_item may do during an operation.
SaveEnvs == {[NoFailure EXCEPT !.put_item = o] : o \in AwsOutcomes}

\* What get_item and the reading of the file may do during __init__.
LoadEnvs == {[NoFailure EXCEPT !.get_item = o, !.read = r] : o \in AwsOutcomes, r \in BOOLEAN}

\* The constructor arguments of the statement-level specifications.
RaceConstructorArgs == {args \in ConstructorArgs : args.long_break_interval = 2}

\* start(), pause(), resume(), cancel(), skip() by name.
Operation(name, w, ok) ==
    CASE name = "start" -> start(w, None, ok)
      [] name = "pause" -> pause(w, ok)
      [] name = "resume" -> resume(w, ok)
      [] name = "cancel" -> cancel(w, ok)
      [] name = "skip" -> skip(w, ok)

\* The bounds of the model allow the operation.
WithinBounds(name, w) ==
    CASE name = "start" -> start_schedules(w, None) => CanSchedule(w)
      [] name = "resume" -> resume_schedules(w) => CanSchedule(w)
      [] name = "skip" -> BelowMaxPomodoros(w.self)
      [] OTHER -> TRUE

\* The constructor has returned a PomodoroTimer.
Constructed == ~(last.op = "init" /\ last.raised)

\* An operation during which the stores do what env and ok say.
Pomodoro_operation(name, env, ok) ==
    /\ Constructed
    /\ WithinBounds(name, World)
    /\ Commit(Operation(name, [World EXCEPT !.env = env], ok), name)

\* Timer t's thread runs _timer_complete while the stores do what env and
\* ok say; an exception ends the thread.
Persist_timer_complete(t, env, ok) ==
    /\ timers[t].st = "fired"
    /\ timers[t].function = "PomodoroTimer"
    /\ BelowMaxPomodoros(pomodoro)
    /\ LET w == timer_complete([World EXCEPT !.env = env], ok)
       IN Commit([w EXCEPT !.timers[t] = FreeTimer], "timer_complete")

\* __init__(args, use_aws=use_aws) up to the call of _load_state.
PomodoroTimer_init_aws(args, use_aws, outcome) ==
    IF use_aws THEN initialize_aws(PomodoroTimer_init(args), outcome)
    ELSE PomodoroTimer_init(args)

\* PomodoroTimer(args, use_aws=use_aws) in a new process.
PomodoroTimer_new(w, args, use_aws, outcome) ==
    load_state([w EXCEPT !.self = PomodoroTimer_init_aws(args, use_aws, outcome),
                         !.timers = [i \in TimerIds |-> FreeTimer]])

\* The process ends (its daemon Timer threads with it) and a new process
\* constructs the PomodoroTimer for the same user_id.
Persist_restart(use_aws, outcome, env) ==
    \E args \in RaceConstructorArgs :
       Commit(PomodoroTimer_new([World EXCEPT !.env = env], args, use_aws, outcome), "init")

InitPersistence ==
    /\ now = 0
    /\ \E args \in RaceConstructorArgs, use_aws \in BOOLEAN :
          pomodoro = PomodoroTimer_init_aws(args, use_aws, "ok")
    /\ countdown = CountdownTimer_init
    /\ caller = Idle
    /\ ghost = NoGhost
    /\ timers = [i \in TimerIds |-> FreeTimer]
    /\ file = NoFile
    /\ dynamodb = NoFile
    /\ agent = AirthAgent_init
    /\ last = [op |-> "init", cb |-> <<>>, raised |-> FALSE, time_remaining |-> NoTime,
               invoked |-> <<>>]

\* The operations of SpecSave.
SaveOperationArgs == {"start", "cancel", "skip"}

\* SpecSave: the operations of one PomodoroTimer with every outcome of the
\* calls that save its state, to the table and to the file.
NextSave ==
    \/ RaceTick
    \/ \E name \in SaveOperationArgs, env \in SaveEnvs, ok \in BOOLEAN :
          Pomodoro_operation(name, env, ok)
    \/ \E t \in TimerIds : Fire(t)
    \/ \E t \in TimerIds, env \in SaveEnvs, ok \in BOOLEAN : Persist_timer_complete(t, env, ok)

\* The PomodoroTimer of SpecSave is constructed with use_aws = True.
InitSave == InitPersistence /\ pomodoro.use_aws

SpecSave == InitSave /\ [][NextSave]_vars

\* SpecLoad: the operations of one PomodoroTimer and its restarts with
\* every outcome of the calls that load its state; a save goes to the table
\* or, after a ClientError, to the file.
NextLoad ==
    \/ RaceTick
    \/ \E name \in OperationArgs \ {"skip"}, o \in {"ok", "ClientError"} :
          Pomodoro_operation(name, [NoFailure EXCEPT !.put_item = o], TRUE)
    \/ \E use_aws \in BOOLEAN, outcome \in {"ok", "ClientError"}, env \in LoadEnvs :
          Persist_restart(use_aws, outcome, env)
    \/ \E t \in TimerIds : Fire(t)
    \/ \E t \in TimerIds : Pomodoro_timer_complete(t, TRUE)

SpecLoad == InitPersistence /\ [][NextLoad]_vars

----------------------------------------------------------------------------
(* AirthAgent with its two timers: set_timer, get_timer_status and          *)
(* cancel_timer for the type asked, and control_pomodoro.                   *)

\* Arguments timer_type: none, the two types (one with a capital), an
\* unknown one.
TimerTypeArgs == {None, "pomodoro", "Countdown", "egg"}

\* timer_type.lower()
Lower(timer_type) == IF timer_type = "Countdown" THEN "countdown" ELSE timer_type

\* `timer_type is None or timer_type.lower() == kind`
Requested(timer_type, kind) == timer_type = None \/ Lower(timer_type) = kind

\* set_timer: `f"Timer for {minutes} minute{'s' if minutes != 1 else ''}"`
AgentDefaultName(minutes) ==
    IF minutes = 1 THEN "Timer for 1 minute" ELSE "Timer for 2 minutes"

\* PomodoroTimer.get_status(), without the formatted time.
get_status(self) ==
    IF self.active /\ self.end_time # NoTime
    THEN [active |-> self.active, phase |-> self.current_phase,
          completed_pomodoros |-> self.completed_pomodoros,
          time_remaining_seconds |-> Max(0, 60 * (self.end_time - now))]
    ELSE [active |-> self.active, phase |-> self.current_phase,
          completed_pomodoros |-> self.completed_pomodoros,
          time_remaining_seconds |-> NoSeconds]

\* get_timer_status that lists every initialised timer of the type asked.
get_timer_status_any(timer_type) ==
    LET pomodoro_entry ==
            IF Requested(timer_type, "pomodoro") /\ agent.pomodoro_timer # None
            THEN <<[timer_type |-> "pomodoro", phase |-> get_status(pomodoro).phase,
                    completed_pomodoros |-> get_status(pomodoro).completed_pomodoros]>>
            ELSE <<>>
        countdown_entry ==
            IF Requested(timer_type, "countdown") /\ agent.countdown_timer # None
            THEN <<[timer_type |-> "countdown",
                    name |-> countdown_get_status(countdown).name]>>
            ELSE <<>>
    IN pomodoro_entry \o countdown_entry

\* get_timer_status(timer_type): result["active_timers"], without the
\* formatted times.
get_timer_status(timer_type) ==
    LET pomodoro_entry ==
            IF /\ Requested(timer_type, "pomodoro") /\ agent.pomodoro_timer # None
               /\ get_status(pomodoro).active
            THEN <<[timer_type |-> "pomodoro", phase |-> get_status(pomodoro).phase,
                    completed_pomodoros |-> get_status(pomodoro).completed_pomodoros]>>
            ELSE <<>>
        countdown_entry ==
            IF /\ Requested(timer_type, "countdown") /\ agent.countdown_timer # None
               /\ countdown_get_status(countdown).active
            THEN <<[timer_type |-> "countdown",
                    name |-> countdown_get_status(countdown).name]>>
            ELSE <<>>
    IN pomodoro_entry \o countdown_entry

\* The end of a command: the world becomes the state, ag the agent.
AgentCommitResult(w, ag, result) ==
    \E v \in {w} : \E sw \in {Sorted(v)} :
       /\ pomodoro' = sw.self
       /\ countdown' = sw.countdown
       /\ timers' = sw.timers
       /\ file' = sw.file
       /\ dynamodb' = sw.dynamodb
       /\ last' = [op |-> result.method, cb |-> sw.cb, raised |-> sw.raised,
                   time_remaining |-> sw.time_remaining, invoked |-> sw.invoked]
       /\ agent' = [ag EXCEPT !.result = result]
       /\ UNCHANGED <<now, caller, ghost>>

\* set_timer(minutes, timer_type, timer_name) for a timer_type other than
\* "pomodoro": _initialize_countdown_timer, the default name, start.
Agent_set_countdown(minutes, timer_name) ==
    LET w == IF agent.countdown_timer = None
             THEN [World EXCEPT !.countdown = CountdownTimer_init]
             ELSE World
        name == IF timer_name = None THEN AgentDefaultName(minutes) ELSE timer_name
    IN /\ now + minutes <= MaxTime
       /\ CountdownCanSchedule(w)
       /\ AgentCommitResult(countdown_start(w, minutes, name),
                            [agent EXCEPT !.countdown_timer = "CountdownTimer"],
                            [method |-> "set_timer", action |-> "countdown",
                             success |-> TRUE, active_timers |-> <<>>,
                             cancelled_timers |-> <<>>])

\* get_timer_status(timer_type)
Agent_get_timer_status(timer_type) ==
    /\ agent' = [agent EXCEPT !.result = [method |-> "get_timer_status",
                                          action |-> timer_type,
                                          success |-> TRUE,
                                          active_timers |-> get_timer_status(timer_type),
                                          cancelled_timers |-> <<>>]]
    /\ UNCHANGED <<now, pomodoro, countdown, timers, file, dynamodb, last, caller, ghost>>

\* cancel_timer that cancels both timers whatever the type asked.
cancel_timer_both(w, timer_type) ==
    LET cancels_pomodoro == agent.pomodoro_timer # None /\ w.self.active
        cancels_countdown == agent.countdown_timer # None /\ w.countdown.active
        w1 == IF cancels_pomodoro THEN cancel(w, TRUE) ELSE w
        w2 == IF cancels_countdown THEN countdown_cancel(w1) ELSE w1
    IN [world |-> w2,
        cancelled_timers |->
           (IF cancels_pomodoro
            THEN <<[timer_type |-> "pomodoro", phase |-> get_status(w.self).phase]>>
            ELSE <<>>)
           \o (IF cancels_countdown
               THEN <<[timer_type |-> "countdown",
                       name |-> countdown_get_status(w.countdown).name]>>
               ELSE <<>>)]

\* cancel_timer(timer_type) up to the message: the world it leaves and
\* result["cancelled_timers"].
cancel_timer(w, timer_type) ==
    LET cancels_pomodoro == /\ Requested(timer_type, "pomodoro")
                            /\ agent.pomodoro_timer # None /\ w.self.active
        cancels_countdown == /\ Requested(timer_type, "countdown")
                             /\ agent.countdown_timer # None /\ w.countdown.active
        w1 == IF cancels_pomodoro THEN cancel(w, TRUE) ELSE w
        w2 == IF cancels_countdown THEN countdown_cancel(w1) ELSE w1
    IN [world |-> w2,
        cancelled_timers |->
           (IF cancels_pomodoro
            THEN <<[timer_type |-> "pomodoro", phase |-> get_status(w.self).phase]>>
            ELSE <<>>)
           \o (IF cancels_countdown
               THEN <<[timer_type |-> "countdown",
                       name |-> countdown_get_status(w.countdown).name]>>
               ELSE <<>>)]

\* cancel_timer(timer_type): success is False when nothing was cancelled.
Agent_cancel_timer_type(timer_type) ==
    \E r \in {cancel_timer(World, timer_type)} :
       AgentCommitResult(r.world, agent,
                         [method |-> "cancel_timer", action |-> timer_type,
                          success |-> r.cancelled_timers # <<>>,
                          active_timers |-> <<>>,
                          cancelled_timers |-> r.cancelled_timers])

\* SpecAgentTimers: the timer commands of one AirthAgent, each run to its
\* end, in any order with the wake-ups of the Timer threads of its timers.
NextAgentTimers ==
    \/ RaceTick
    \/ Agent_set_timer
    \/ \E minutes \in MinutesArgs : Agent_set_countdown(minutes, None)
    \/ \E timer_type \in TimerTypeArgs : Agent_get_timer_status(timer_type)
    \/ \E timer_type \in TimerTypeArgs : Agent_cancel_timer_type(timer_type)
    \/ \E action \in ActionArgs \ {"skip"} : Agent_control_pomodoro(action)
    \/ \E t \in TimerIds : Fire(t)
    \/ \E t \in TimerIds : Pomodoro_timer_complete(t, TRUE)
    \/ \E t \in TimerIds : Countdown_timer_complete(t)

SpecAgentTimers == InitRace /\ [][NextAgentTimers]_vars

----------------------------------------------------------------------------
(* AirthAgent.process_timer_command.  A command is the sequence of its      *)
(* characters, so that `phrase in command` is what Python computes: the     *)
(* phrase occurs in the command as a run of consecutive characters.         *)

\* The commands of test_process_timer_command, with minutes the clock's
\* bound allows.
SetTimerCommands ==
    { <<"s", "e", "t", " ", "a", " ", "t", "i", "m", "e", "r", " ", "f", "o", "r", " ", "1",
        " ", "m", "i", "n", "u", "t", "e">>,
      <<"S", "e", "t", " ", "a", " ", "t", "i", "m", "e", "r", " ", "f", "o", "r", " ", "2",
        " ", "m", "i", "n", "u", "t", "e", "s", " ", "c", "a", "l", "l", "e", "d", " ", "M",
        "e", "e", "t", "i", "n", "g", " ", "T", "i", "m", "e", "r">> }

StartPomodoroCommand ==
    <<"s", "t", "a", "r", "t", " ", "a", " ", "p", "o", "m", "o", "d", "o", "r", "o">>

StatusCommand ==
    <<"w", "h", "a", "t", "'", "s", " ", "t", "h", "e", " ", "s", "t", "a", "t", "u", "s", " ",
      "o", "f", " ", "m", "y", " ", "t", "i", "m", "e", "r", "?">>

PauseCommand ==
    <<"p", "a", "u", "s", "e", " ", "p", "o", "m", "o", "d", "o", "r", "o">>

ResumeCommand ==
    <<"r", "e", "s", "u", "m", "e", " ", "p", "o", "m", "o", "d", "o", "r", "o">>

CancelPomodoroCommand ==
    <<"c", "a", "n", "c", "e", "l", " ", "p", "o", "m", "o", "d", "o", "r", "o", " ", "t", "i",
      "m", "e", "r">>

\* The commands: the ones of the test, and two that are a phrase of the
\* code word for word.
CommandArgs ==
    SetTimerCommands
    \cup {StartPomodoroCommand, StatusCommand, PauseCommand, ResumeCommand,
          CancelPomodoroCommand}
    \cup { <<"t", "i", "m", "e", "r", " ", "s", "t", "a", "t", "u", "s">>,
           <<"c", "a", "n", "c", "e", "l", " ", "t", "i", "m", "e", "r">> }

UpperCase ==
    <<"A", "B", "C", "D", "E", "F", "G", "H", "I", "J", "K", "L", "M", "N", "O", "P", "Q", "R",
      "S", "T", "U", "V", "W", "X", "Y", "Z">>

LowerCase ==
    <<"a", "b", "c", "d", "e", "f", "g", "h", "i", "j", "k", "l", "m", "n", "o", "p", "q", "r",
      "s", "t", "u", "v", "w", "x", "y", "z">>

\* str.lower()
lower(command) ==
    [i \in DOMAIN command |->
        IF \E k \in DOMAIN UpperCase : UpperCase[k] = command[i]
        THEN LowerCase[CHOOSE k \in DOMAIN UpperCase : UpperCase[k] = command[i]]
        ELSE command[i]]

\* str.strip()
strip(command) ==
    LET inked == {i \in DOMAIN command : command[i] # " "}
    IN IF inked = {} THEN <<>>
       ELSE SubSeq(command, CHOOSE i \in inked : \A j \in inked : i <= j,
                            CHOOSE i \in inked : \A j \in inked : i >= j)

\* The phrase stands in the command at position i.
At(command, i, phrase) ==
    /\ i + Len(phrase) - 1 <= Len(command)
    /\ SubSeq(command, i, i + Len(phrase) - 1) = phrase

\* `phrase in command`
Contains(command, phrase) == \E i \in 1..Len(command) : At(command, i, phrase)

\* `any(phrase in command for phrase in phrases)`
ContainsAny(command, phrases) == \E phrase \in phrases : Contains(command, phrase)

SetPhrases ==
    { <<"s", "e", "t", " ", "a", " ", "t", "i", "m", "e", "r">>,
      <<"s", "t", "a", "r", "t", " ", "a", " ", "t", "i", "m", "e", "r">>,
      <<"s", "e", "t", " ", "t", "i", "m", "e", "r">>,
      <<"c", "r", "e", "a", "t", "e", " ", "t", "i", "m", "e", "r">> }

StatusPhrases ==
    { <<"t", "i", "m", "e", "r", " ", "s", "t", "a", "t", "u", "s">>,
      <<"s", "t", "a", "t", "u", "s", " ", "o", "f", " ", "t", "i", "m", "e", "r">>,
      <<"h", "o", "w", " ", "m", "u", "c", "h", " ", "t", "i", "m", "e">>,
      <<"t", "i", "m", "e", " ", "l", "e", "f", "t">>,
      <<"t", "i", "m", "e", "r", " ", "l", "e", "f", "t">> }

CancelPhrases ==
    { <<"c", "a", "n", "c", "e", "l", " ", "t", "i", "m", "e", "r">>,
      <<"s", "t", "o", "p", " ", "t", "i", "m", "e", "r">>,
      <<"e", "n", "d", " ", "t", "i", "m", "e", "r">>,
      <<"c", "l", "e", "a", "r", " ", "t", "i", "m", "e", "r">> }

ResumeWords ==
    { <<"r", "e", "s", "u", "m", "e">>,
      <<"c", "o", "n", "t", "i", "n", "u", "e">>,
      <<"u", "n", "p", "a", "u", "s", "e">> }

SkipWords ==
    { <<"s", "k", "i", "p">>,
      <<"n", "e", "x", "t">>,
      <<"f", "o", "r", "w", "a", "r", "d">> }

pomodoro_word == <<"p", "o", "m", "o", "d", "o", "r", "o">>

countdown_word == <<"c", "o", "u", "n", "t", "d", "o", "w", "n">>

pause_word == <<"p", "a", "u", "s", "e">>

start_word == <<"s", "t", "a", "r", "t">>

\* The units of the duration's pattern, in the order of its alternation.
Units ==
    << <<"m", "i", "n", "u", "t", "e">>,
       <<"m", "i", "n">>,
       <<"m", "i", "n", "u", "t", "e", "s">>,
       <<"h", "o", "u", "r">>,
       <<"h", "o", "u", "r", "s">>,
       <<"h">>,
       <<"p", "o", "m", "o", "d", "o", "r", "o">> >>

\* The words of the name's pattern.
NameWords ==
    << <<"c", "a", "l", "l", "e", "d">>,
       <<"n", "a", "m", "e", "d">>,
       <<"f", "o", "r">> >>

Digits == <<"0", "1", "2", "3", "4", "5", "6", "7", "8", "9">>

IsDigit(c) == \E k \in DOMAIN Digits : Digits[k] = c

\* float(...) of a run of digits
RECURSIVE Number(_)
Number(digits) ==
    IF digits = <<>> THEN 0
    ELSE 10 * Number(SubSeq(digits, 1, Len(digits) - 1))
         + (CHOOSE k \in DOMAIN Digits : Digits[k] = digits[Len(digits)]) - 1

\* The first position from i on whose character is not in the set.
Past(command, i, chars) ==
    CHOOSE k \in i..(Len(command) + 1) :
       /\ \A j \in i..(k - 1) : command[j] \in chars
       /\ k <= Len(command) => command[k] \notin chars

\* re.search(r'(\d+\.?\d*)\s*(minute|min|minutes|hour|hours|h|pomodoro)',
\* command) tried at position i, for a number without a fraction: the
\* digits, then spaces, then the first unit of the alternation that stands
\* there.
TimeMatchAt(command, i) ==
    LET digit == {Digits[k] : k \in DOMAIN Digits}
        j == Past(command, i, digit)
        k == Past(command, j, {" "})
    IN /\ IsDigit(command[i])
       /\ \E u \in DOMAIN Units : At(command, k, Units[u])

\* No match of a pattern.
NoMatch == [found |-> FALSE, duration |-> 0, unit |-> <<>>]

\* time_match: group 1 as a number and group 2, of the leftmost match.
time_match(command) ==
    LET starts == {i \in DOMAIN command : TimeMatchAt(command, i)}
        i == CHOOSE s \in starts : \A t \in starts : s <= t
        digit == {Digits[k] : k \in DOMAIN Digits}
        j == Past(command, i, digit)
        k == Past(command, j, {" "})
        u == CHOOSE x \in DOMAIN Units :
                /\ At(command, k, Units[x])
                /\ \A y \in 1..(x - 1) : ~At(command, k, Units[y])
    IN IF starts = {} THEN NoMatch
       ELSE [found |-> TRUE, duration |-> Number(SubSeq(command, i, j - 1)),
             unit |-> Units[u]]

Quotes == {"\"", "'"}

\* re.search(r'(called|named|for)\s+["\']?([^"\']+)["\']?', command) tried
\* at position i: one of the words, spaces, an optional quote, and at least
\* one character that is no quote.
NameMatchAt(command, i) ==
    \E n \in DOMAIN NameWords :
       LET j == i + Len(NameWords[n])
           k == Past(command, j, {" "})
           m == IF k <= Len(command) /\ command[k] \in Quotes THEN k + 1 ELSE k
       IN /\ At(command, i, NameWords[n])
          /\ k > j
          /\ m <= Len(command) /\ command[m] \notin Quotes

\* name_match.group(2).strip() of the leftmost match: the characters up to
\* the next quote or the end of the command; <<>> without a match.
name_match(command) ==
    LET starts == {i \in DOMAIN command : NameMatchAt(command, i)}
        i == CHOOSE s \in starts : \A t \in starts : s <= t
        n == CHOOSE x \in DOMAIN NameWords : At(command, i, NameWords[x])
        j == i + Len(NameWords[n])
        k == Past(command, j, {" "})
        m == IF command[k] \in Quotes THEN k + 1 ELSE k
        e == CHOOSE x \in m..(Len(command) + 1) :
                /\ \A y \in m..(x - 1) : command[y] \notin Quotes
                /\ x <= Len(command) => command[x] \in Quotes
    IN IF starts = {} THEN <<>> ELSE strip(SubSeq(command, m, e - 1))

\* The str of a sequence of characters, for the names the commands give.
Str(chars) ==
    CASE chars = <<>> -> None
      [] chars = <<"1", " ", "m", "i", "n", "u", "t", "e">> -> "1 minute"
      [] chars = <<"2", " ", "m", "i", "n", "u", "t", "e", "s", " ", "c", "a", "l", "l", "e", "d",
             " ", "m", "e", "e", "t", "i", "n", "g", " ", "t", "i", "m", "e", "r">>
           -> "2 minutes called meeting timer"

\* What process_timer_command calls: the method and its arguments; "return"
\* is the dict with success False it returns itself.
NoCall == [method |-> "return", minutes |-> 0, timer_type |-> None, timer_name |-> None,
           action |-> None]

\* process_timer_command(command)
process_timer_command(command0) ==
    LET command == strip(lower(command0))
        time == time_match(command)
        duration == IF time.unit \in {<<"h", "o", "u", "r">>, <<"h", "o", "u", "r", "s">>, <<"h">>}
                    THEN time.duration * 60 ELSE time.duration
        pomodoro25 == [NoCall EXCEPT !.method = "set_timer", !.minutes = 25,
                                     !.timer_type = "pomodoro"]
    IN IF ContainsAny(command, SetPhrases)
       THEN IF time.found
            THEN IF Contains(command, pomodoro_word)
                 THEN [NoCall EXCEPT !.method = "set_timer", !.minutes = duration,
                                     !.timer_type = "pomodoro"]
                 ELSE [NoCall EXCEPT !.method = "set_timer", !.minutes = duration,
                                     !.timer_type = "countdown",
                                     !.timer_name = Str(name_match(command))]
            ELSE IF Contains(command, pomodoro_word) THEN pomodoro25 ELSE NoCall
       ELSE IF ContainsAny(command, StatusPhrases)
       THEN [NoCall EXCEPT !.method = "get_timer_status",
                           !.timer_type = IF Contains(command, pomodoro_word)
                                          THEN "pomodoro" ELSE None]
       ELSE IF ContainsAny(command, CancelPhrases)
       THEN [NoCall EXCEPT !.method = "cancel_timer",
                           !.timer_type = IF Contains(command, pomodoro_word) THEN "pomodoro"
                                          ELSE IF Contains(command, countdown_word)
                                          THEN "countdown" ELSE None]
       ELSE IF Contains(command, pomodoro_word)
       THEN IF Contains(command, pause_word)
            THEN [NoCall EXCEPT !.method = "control_pomodoro", !.action = "pause"]
            ELSE IF ContainsAny(command, ResumeWords)
            THEN [NoCall EXCEPT !.method = "control_pomodoro", !.action = "resume"]
            ELSE IF ContainsAny(command, SkipWords)
            THEN [NoCall EXCEPT !.method = "control_pomodoro", !.action = "skip"]
            ELSE IF Contains(command, start_word) THEN pomodoro25
            ELSE NoCall
       ELSE NoCall

\* process_timer_command(command): the method it calls runs to its end and
\* its result is returned.
Agent_process_timer_command(command) ==
    \E call \in {process_timer_command(command)} :
       CASE call.method = "set_timer" /\ call.timer_type = "pomodoro" -> Agent_set_timer
         [] call.method = "set_timer" /\ call.timer_type = "countdown" ->
               Agent_set_countdown(call.minutes, call.timer_name)
         [] call.method = "get_timer_status" -> Agent_get_timer_status(call.timer_type)
         [] call.method = "cancel_timer" -> Agent_cancel_timer_type(call.timer_type)
         [] call.method = "control_pomodoro" -> Agent_control_pomodoro(call.action)
         [] OTHER -> AgentReturn("process_timer_command", None, FALSE)

\* SpecCommands: the commands given to one AirthAgent, each run to its end,
\* in any order with the wake-ups of the Timer threads of its timers.
NextCommands ==
    \/ RaceTick
    \/ \E command \in CommandArgs : Agent_process_timer_command(command)
    \/ \E t \in TimerIds : Fire(t)
    \/ \E t \in TimerIds : Pomodoro_timer_complete(t, TRUE)
    \/ \E t \in TimerIds : Countdown_timer_complete(t)

SpecCommands == InitRace /\ [][NextCommands]_vars

----------------------------------------------------------------------------
(* Shorthands for the properties *)

WakeUp(ok) == \E t \in TimerIds : Pomodoro_timer_complete(t, ok)

Scheduled == {i \in TimerIds : timers[i].st = "waiting"}

\* Timer threads past their wait and not yet ended.
RunningThreads == {i \in TimerIds : timers[i].st \notin {"free", "created", "waiting"}}

Completed == last.op \in {"timer_complete", "skip"} /\ last.cb = <<"on_complete">>

BreakFor(n, interval) == IF n % interval = 0 THEN "long_break" ELSE "short_break"

----------------------------------------------------------------------------
(* Properties *)

C3_NoAutoStart ==
    Completed => ~pomodoro.active /\ Scheduled = {}

\* C4: a resume() that follows a pause() leaves the remaining time what it
\* was at the pause, and the phase and the count as they were.
C4_PauseResume ==
    [][ (last.op = "pause" /\ last.cb = <<"on_pause">>
           /\ last'.op = "resume" /\ last'.cb = <<"on_resume">>)
        => /\ Max(0, pomodoro'.end_time - now') = last.time_remaining
           /\ pomodoro'.current_phase = pomodoro.current_phase
           /\ pomodoro'.completed_pomodoros = pomodoro.completed_pomodoros ]_vars

\* C5: of the on_cancel and on_complete callbacks of one countdown at most
\* one fires, and once the threads are done the timer is not active.
C5_CancelOrComplete ==
    LET n == Cardinality({i \in DOMAIN ghost.fired :
                             ghost.fired[i] \in {"on_cancel", "on_complete"}})
    IN /\ n <= 1
       /\ (n >= 1 /\ caller.pc = "idle" /\ RunningThreads = {}) => ~countdown.active

\* C6: at most one wake-up is scheduled at any moment.
C6_OneWakeUp == Cardinality(Scheduled) <= 1

\* C7: end_time is set if and only if the timer is active.
C7_EndTimeIffActive == (pomodoro.end_time # NoTime) <=> pomodoro.active

\* C8: while the timer is active, current_phase is one of work, short_break,
\* long_break (never idle).
C8_ActivePhase ==
    pomodoro.active => pomodoro.current_phase \in {"work", "short_break", "long_break"}

\* C10: a work phase that was started counts once: while that countdown is
\* the latest one, completed_pomodoros is at most one above its value at
\* the start, and once a completion has been signalled and the threads are
\* done the count is exactly one above and the phase is the break that
\* follows.
C10_OncePerWorkPhase ==
    ghost.phase0 = "work" =>
      /\ pomodoro.completed_pomodoros <= ghost.cp0 + 1
      /\ ("on_complete" \in {ghost.fired[i] : i \in DOMAIN ghost.fired}
            /\ caller.pc = "idle" /\ RunningThreads = {})
          => /\ pomodoro.completed_pomodoros = ghost.cp0 + 1
             /\ pomodoro.current_phase =
                   BreakFor(ghost.cp0 + 1, pomodoro.long_break_interval)

\* C9: completed_pomodoros never decreases in the lifetime of a timer
\* object (a lower value appears only in a newly constructed one).
C9_CountNeverDecreases ==
    [][ pomodoro'.completed_pomodoros < pomodoro.completed_pomodoros
        => last'.op = "init" ]_vars

\* cancel() has run on a timer with completed pomodoros and kept the count.
C9_Witness ==
    /\ last.op = "cancel" /\ last.cb = <<"on_cancel">>
    /\ pomodoro.completed_pomodoros >= 1
    /\ pomodoro.current_phase = "idle"

\* C11: a skip() called while the timer is active in the work phase that
\* start() began returns with completed_pomodoros one above its value at
\* the call, the timer not active, in the break that follows, and no
\* wake-up scheduled.
C11_SkipWork ==
    [][ (caller.pc # "idle" /\ caller'.pc = "idle"
           /\ caller.entry.active /\ caller.entry.current_phase = "work"
           /\ ghost.phase0 = "work"
           /\ caller.entry.completed_pomodoros = ghost.cp0)
        => /\ ~ghost'.raised
           /\ pomodoro'.completed_pomodoros = caller.entry.completed_pomodoros + 1
           /\ ~pomodoro'.active
           /\ pomodoro'.current_phase =
                 BreakFor(caller.entry.completed_pomodoros + 1, pomodoro.long_break_interval)
           /\ Scheduled' = {} ]_vars

\* C12: skip() in any of the phases work, short_break, long_break, counting
\* or paused, leaves what the natural expiry of that phase leaves: the
\* phase and the count advanced, the timer not active, that state in the
\* file, and on_complete triggered.
C12_SkipAsExpiry ==
    [][ (pomodoro.current_phase \in {"work", "short_break", "long_break"}
           /\ last'.op = "skip" /\ Pomodoro_skip(TRUE))
        => LET expiry == advance_phase(pomodoro)
           IN /\ pomodoro'.current_phase = expiry.current_phase
              /\ pomodoro'.completed_pomodoros = expiry.completed_pomodoros
              /\ ~pomodoro'.active
              /\ file' = <<StateDict(pomodoro')>>
              /\ last'.cb = <<"on_complete">> ]_vars

\* C13: start() with no argument on a timer that is not active begins a
\* work session: current_phase = work, active, end_time = now +
\* work_minutes, and the wake-up scheduled for end_time.
C13_UnqualifiedStart ==
    [][ (~pomodoro.active /\ last'.op = "start" /\ Pomodoro_start(None, TRUE))
        => /\ pomodoro'.current_phase = "work"
           /\ pomodoro'.active
           /\ pomodoro'.end_time = now + pomodoro.work_minutes
           /\ pomodoro'.timer_thread \in Scheduled'
           /\ timers'[pomodoro'.timer_thread].deadline = pomodoro'.end_time ]_vars

\* C14: start(phase), for any argument, on a timer that is active changes
\* nothing: the object (current_phase, end_time, completed_pomodoros), the
\* Timers and the file stay as they are and no callback is triggered.
C14_StartWhileActive ==
    [][ (pomodoro.active /\ last'.op = "start"
           /\ \E phase \in PhaseArgs : Pomodoro_start(phase, TRUE))
        => /\ pomodoro' = pomodoro
           /\ timers' = timers
           /\ file' = file
           /\ last'.cb = <<>> /\ ~last'.raised ]_vars

\* start() has returned without a callback on a timer that counts a break
\* with its wake-up scheduled.
C14_Witness ==
    /\ last.op = "start" /\ last.cb = <<>>
    /\ pomodoro.active /\ pomodoro.current_phase = "short_break"
    /\ pomodoro.timer_thread \in Scheduled

\* C15: cancel() on a timer that is active or whose phase is not idle
\* leaves no wake-up scheduled, current_phase = idle, the timer not active,
\* end_time cleared, that state in the file, and completed_pomodoros as it
\* was.
C15_Cancel ==
    [][ ((pomodoro.active \/ pomodoro.current_phase # "idle")
           /\ last'.op = "cancel" /\ Pomodoro_cancel(TRUE))
        => /\ pomodoro'.current_phase = "idle"
           /\ ~pomodoro'.active
           /\ pomodoro'.end_time = NoTime
           /\ pomodoro'.completed_pomodoros = pomodoro.completed_pomodoros
           /\ file' = <<StateDict(pomodoro')>>
           /\ last'.cb = <<"on_cancel">>
           /\ Scheduled' = {} ]_vars

\* The file holds a record with active = true and an end_time.
ActiveRecord == file # NoFile /\ file[1].active /\ file[1].end_time # NoTime

\* C16: a timer constructed from a record with active = true whose end_time
\* has passed is not active, has no end_time, is in phase idle, has no
\* wake-up scheduled, has triggered no callback and has the record's
\* completed_pomodoros.
C16_RestoreExpired ==
    [][ (ActiveRecord /\ file[1].end_time <= now /\ last'.op = "init" /\ Restart)
        => /\ ~pomodoro'.active
           /\ pomodoro'.end_time = NoTime
           /\ pomodoro'.current_phase = "idle"
           /\ Scheduled' = {}
           /\ last'.cb = <<>>
           /\ pomodoro'.completed_pomodoros = file[1].completed_pomodoros ]_vars

\* C17: a timer constructed from a record with active = true whose end_time
\* is still ahead has every field of the record (current_phase,
\* completed_pomodoros, end_time, active = true, the durations), and
\* exactly one wake-up is scheduled, for the record's end_time.
C17_RestoreActive ==
    [][ (ActiveRecord /\ file[1].end_time > now /\ last'.op = "init" /\ Restart)
        => /\ StateDict(pomodoro') = file[1]
           /\ pomodoro'.active
           /\ Scheduled' = {pomodoro'.timer_thread}
           /\ timers'[pomodoro'.timer_thread].deadline = file[1].end_time
           /\ last'.cb = <<>> ]_vars

\* A timer restored from the record of a long break on its second minute is
\* counting, its wake-up due at the record's end_time.
C17_Witness ==
    /\ last.op = "init"
    /\ pomodoro.active /\ pomodoro.current_phase = "long_break"
    /\ pomodoro.completed_pomodoros = 2
    /\ file # NoFile /\ StateDict(pomodoro) = file[1]
    /\ pomodoro.end_time = now + 1
    /\ Scheduled = {pomodoro.timer_thread}

\* C18: a timer constructed from the record pause() wrote has the
\* current_phase, completed_pomodoros and end_time of the timer that wrote
\* it.
C18_RestorePaused ==
    [][ (last.op = "pause" /\ last.cb = <<"on_pause">> /\ last'.op = "init" /\ Restart)
        => /\ pomodoro'.current_phase = pomodoro.current_phase
           /\ pomodoro'.completed_pomodoros = pomodoro.completed_pomodoros
           /\ pomodoro'.end_time = pomodoro.end_time ]_vars

\* C19: pause() on a timer that is not active, and resume() on a timer that
\* is active or whose phase is idle, change nothing: the object (active,
\* current_phase, end_time, completed_pomodoros), the Timers and the file
\* stay as they are, no callback is triggered and nothing is raised.
C19_InvalidOperations ==
    [][ ( \/ ~pomodoro.active /\ last'.op = "pause" /\ Pomodoro_pause(TRUE)
          \/ /\ pomodoro.active \/ pomodoro.current_phase = "idle"
             /\ last'.op = "resume" /\ Pomodoro_resume(TRUE) )
        => /\ pomodoro' = pomodoro
           /\ timers' = timers
           /\ file' = file
           /\ last'.cb = <<>> /\ ~last'.raised ]_vars

\* pause() has returned without a callback on a timer that is paused in a
\* work phase, the record pause() wrote before still in the file.
C19_Witness ==
    /\ last.op = "pause" /\ last.cb = <<>> /\ ~last.raised
    /\ ~pomodoro.active /\ pomodoro.current_phase = "work"
    /\ pomodoro.end_time # NoTime
    /\ file # NoFile /\ file[1] = StateDict(pomodoro)

\* C20: control_pomodoro returns success = false for every invalid
\* operation: any action before the timer is initialised, pause on a timer
\* that is not active, resume on a timer that is active or whose phase is
\* idle.
C20_InvalidCommand ==
    [][ \A action \in ActionArgs :
          ( /\ \/ agent.pomodoro_timer = None
               \/ action = "pause" /\ ~pomodoro.active
               \/ action = "resume" /\ (pomodoro.active \/ pomodoro.current_phase = "idle")
            /\ agent'.result.method = "control_pomodoro"
            /\ agent'.result.action = action
            /\ Agent_control_pomodoro(action) )
          => ~agent'.result.success ]_vars

\* C21: start(phase) with a string that names no phase, on a timer that is
\* not active, changes nothing: the object (current_phase, active,
\* end_time, completed_pomodoros) and the file stay as they are.
C21_UnknownPhase ==
    [][ (~pomodoro.active /\ last'.op = "start"
           /\ \E phase \in PhaseArgs \ {None, "work", "short_break", "long_break"} :
                 Pomodoro_start(phase, TRUE))
        => pomodoro' = pomodoro /\ file' = file ]_vars

\* C22: no operation of the PomodoroTimer ends by raising an exception.
C22_NoException == ~last.raised

\* Operations of the CountdownTimer, as last.op names them.
CountdownOps == {"countdown_start", "countdown_cancel", "countdown_timer_complete",
                 "countdown_add_callback"}

\* Every callback registered for the events, event by event, in the order
\* of registration.
RECURSIVE InRegistrationOrder(_, _)
InRegistrationOrder(callbacks, events) ==
    IF events = <<>> THEN <<>>
    ELSE [i \in 1..Len(callbacks[Head(events)]) |-> <<Head(events), i>>]
         \o InRegistrationOrder(callbacks, Tail(events))

\* C23: for every event an operation of either timer triggers, all the
\* callbacks registered for the event are invoked, in registration order,
\* whether or not one of them raises; and the operation that triggered
\* them has not raised and has made its transition: the timer is active
\* after on_start and on_resume and inactive after the other events, idle
\* after a PomodoroTimer's on_cancel, and the PomodoroTimer's record is saved.
C23_Callbacks ==
    LET self == IF last.op \in CountdownOps THEN countdown ELSE pomodoro
        event == last.cb[Len(last.cb)]
    IN /\ last.invoked = InRegistrationOrder(self.callbacks, last.cb)
       /\ last.cb # <<>> =>
            /\ ~last.raised
            /\ self.active = (event \in {"on_start", "on_resume"})
            /\ last.op \notin CountdownOps =>
                 /\ file = <<StateDict(pomodoro)>>
                 /\ event = "on_cancel" => pomodoro.current_phase = "idle"

\* An operation has invoked two callbacks of one event, the first of which
\* raised.
C23_Witness ==
    LET self == IF last.op \in CountdownOps THEN countdown ELSE pomodoro
    IN \E event \in DOMAIN self.callbacks :
          /\ Len(self.callbacks[event]) = 2
          /\ self.callbacks[event][1] = "raises"
          /\ last.invoked = <<<<event, 1>>, <<event, 2>>>>

\* The wake-ups of the CountdownTimer that are scheduled.
CountdownScheduled ==
    {i \in TimerIds : timers[i].st = "waiting" /\ timers[i].function = "CountdownTimer"}

\* C24: when CountdownTimer.start(minutes, timer_name) returns, the timer is
\* active, end_time is now + minutes, the name is the given one (the default
\* one for None), on_start is the last event triggered, and exactly one
\* wake-up of the timer is scheduled, at end_time; no wake-up of an earlier
\* countdown is left.
C24_CountdownStart ==
    [][ \A minutes \in MinutesArgs, timer_name \in NameArgs :
          last'.op = "countdown_start" /\ Countdown_start(minutes, timer_name)
          => /\ countdown'.active
             /\ countdown'.end_time = now + minutes
             /\ countdown'.timer_name =
                  IF timer_name = None THEN DefaultName(minutes) ELSE timer_name
             /\ last'.cb # <<>> /\ last'.cb[Len(last'.cb)] = "on_start"
             /\ CountdownScheduled' = {countdown'.timer_thread}
             /\ timers'[countdown'.timer_thread].deadline = countdown'.end_time
             /\ \A t \in TimerIds : timers'[t].st \in {"free", "waiting"} ]_vars

\* C25: CountdownTimer.cancel() on a timer that is not active changes no
\* field and no Timer and triggers no callback; on an active timer it
\* leaves the timer inactive, triggers on_cancel and nothing else, and no
\* wake-up of the timer is left, waiting or about to run _timer_complete.
C25_CountdownCancel ==
    [][ last'.op = "countdown_cancel" /\ Countdown_cancel
        => IF ~countdown.active
           THEN countdown' = countdown /\ timers' = timers /\ last'.cb = <<>>
           ELSE /\ ~countdown'.active
                /\ last'.cb = <<"on_cancel">>
                /\ \A t \in TimerIds : timers'[t].function # "CountdownTimer" ]_vars

\* C26: get_status() called as CountdownTimer.start(minutes) returns reports
\* active with the given name and a time_remaining_seconds above 0 and at
\* most the duration (60 * minutes seconds); and in every state a reported
\* time_remaining_seconds is the time from now to end_time, 0 once end_time
\* is past, never negative, and is reported exactly when the timer is active.
C26_CountdownStatus ==
    [][ \E status \in {countdown_get_status(countdown)'} :
          /\ \A minutes \in MinutesArgs, timer_name \in NameArgs :
                last'.op = "countdown_start" /\ Countdown_start(minutes, timer_name)
                => /\ status.active
                   /\ status.name = countdown'.timer_name
                   /\ 0 < status.time_remaining_seconds
                   /\ status.time_remaining_seconds <= 60 * minutes
          /\ status.active = countdown'.active
          /\ IF countdown'.active
             THEN /\ status.time_remaining_seconds >= 0
                  /\ status.time_remaining_seconds =
                       IF countdown'.end_time > now'
                       THEN 60 * (countdown'.end_time - now') ELSE 0
             ELSE status.time_remaining_seconds = NoSeconds ]_vars

\* start(2, "tea") has just returned and get_status() reports the timer
\* active with its two minutes.
C26_Witness ==
    LET status == countdown_get_status(countdown)
    IN /\ last.op = "countdown_start"
       /\ countdown.end_time = now + 2
       /\ status.active /\ status.name = "tea"
       /\ status.time_remaining_seconds = 120

\* C27: a timer that is active and is not cancelled, paused, skipped or
\* restarted eventually is inactive, and the wake-up that makes it so (the
\* _timer_complete that triggers on_complete) comes when the end_time of
\* the countdown is reached, not before.
C27_WakeUpCompletes ==
    /\ countdown.active ~> ~countdown.active
    /\ (pomodoro.active /\ BelowMaxPomodoros(pomodoro)) ~> ~pomodoro.active
    /\ [][ /\ (/\ last'.op = "countdown_timer_complete"
               /\ last'.cb = <<"on_complete">>
               /\ \E t \in TimerIds : Countdown_timer_complete(t))
              => now >= countdown.end_time
           /\ (/\ last'.op = "timer_complete"
               /\ last'.cb = <<"on_complete">>
               /\ \E t \in TimerIds : Pomodoro_timer_complete(t, TRUE))
              => now >= pomodoro.end_time ]_vars

\* C28: whatever put_item and the writing of the file do during an
\* operation or a wake-up, the operation does what it does when the stores
\* work: it raises only if it raises then, and the timer, its Timers and
\* the callbacks triggered are the same; and when it saves, the record goes
\* to the table if put_item succeeds and to the file if put_item fails and
\* the file can be written.
C28_SaveFailure ==
    [][ /\ \A name \in SaveOperationArgs, env \in SaveEnvs, ok \in BOOLEAN :
              last'.op = name /\ Pomodoro_operation(name, env, ok)
              => \E good \in {Sorted(Operation(name, World, TRUE))} :
                    /\ last'.raised = good.raised
                    /\ pomodoro' = good.self /\ timers' = good.timers
                    /\ last'.cb = good.cb
                    /\ good.cb # <<>> /\ env.put_item = "ok"
                       => dynamodb' = <<StateDict(pomodoro')>>
                    /\ good.cb # <<>> /\ env.put_item # "ok" /\ ok
                       => file' = <<StateDict(pomodoro')>>
        /\ \A t \in TimerIds, env \in SaveEnvs, ok \in BOOLEAN :
              last'.op = "timer_complete" /\ Persist_timer_complete(t, env, ok)
              => \E good \in {timer_complete(World, TRUE)} :
                    /\ last'.raised = good.raised
                    /\ StateDict(pomodoro') = StateDict(good.self)
                    /\ last'.cb = good.cb ]_vars

\* C29: the constructor does not raise; the record it applies is the item
\* of the table when use_aws is on, get_item succeeds and the table has an
\* item, and else the content of the file when the file exists and can be
\* read; it takes durations, count and phase from the record, and with no
\* record the timer is as constructed: the constructor's durations,
\* completed_pomodoros 0, phase idle, not active.
C29_LoadFallback ==
    [][ \A use_aws \in BOOLEAN, outcome \in {"ok", "ClientError"}, env \in LoadEnvs :
          /\ last'.op = "init" /\ now' = now
          /\ \A t \in TimerIds : timers'[t].st # "fired"
          /\ Persist_restart(use_aws, outcome, env)
          => LET record == IF /\ use_aws /\ outcome = "ok"
                              /\ env.get_item = "ok" /\ dynamodb # NoFile
                           THEN dynamodb
                           ELSE IF env.read THEN file ELSE NoFile
             IN /\ ~last'.raised
                /\ record = NoFile
                   => \E args \in RaceConstructorArgs :
                         pomodoro' = PomodoroTimer_init_aws(args, use_aws, outcome)
                /\ record # NoFile
                   => /\ pomodoro'.work_minutes = record[1].work_minutes
                      /\ pomodoro'.short_break_minutes = record[1].short_break_minutes
                      /\ pomodoro'.long_break_minutes = record[1].long_break_minutes
                      /\ pomodoro'.long_break_interval = record[1].long_break_interval
                      /\ pomodoro'.completed_pomodoros = record[1].completed_pomodoros
                      /\ pomodoro'.current_phase = record[1].current_phase ]_vars

\* The agent's timers that exist and are active, by type.
ActiveTimers ==
    {kind \in {"pomodoro", "countdown"} :
        IF kind = "pomodoro" THEN agent.pomodoro_timer # None /\ pomodoro.active
        ELSE agent.countdown_timer # None /\ countdown.active}

\* C30: get_timer_status(timer_type) returns success true and a list
\* active_timers with one entry, and no more, for each timer of the agent
\* that exists, is active and is of the type asked (any type for None, no
\* type for an unknown one); it changes neither timer.
C30_TimerStatus ==
    [][ \A timer_type \in TimerTypeArgs :
          agent'.result.method = "get_timer_status" /\ Agent_get_timer_status(timer_type)
          => LET active_timers == agent'.result.active_timers
                 expected == {kind \in ActiveTimers : Requested(timer_type, kind)}
             IN /\ agent'.result.success
                /\ {active_timers[i].timer_type : i \in DOMAIN active_timers} = expected
                /\ Len(active_timers) = Cardinality(expected)
                /\ pomodoro' = pomodoro /\ countdown' = countdown ]_vars

\* get_timer_status() has returned two entries while both timers run.
C30_Witness ==
    /\ agent.result.method = "get_timer_status"
    /\ agent.result.action = None
    /\ Len(agent.result.active_timers) = 2
    /\ pomodoro.active /\ countdown.active

\* What a PomodoroTimer is to its user: its fields, the wake-up it refers
\* to, the threads of its earlier wake-ups, and its record.
PomodoroState ==
    <<[pomodoro EXCEPT !.timer_thread = NoThread],
      IF pomodoro.timer_thread = NoThread THEN FreeTimer ELSE timers[pomodoro.timer_thread],
      {timers[t] : t \in {i \in TimerIds : timers[i].function = "PomodoroTimer"}},
      file>>

\* The same of a CountdownTimer, which has no record.
CountdownState ==
    <<[countdown EXCEPT !.timer_thread = NoThread],
      IF countdown.timer_thread = NoThread THEN FreeTimer ELSE timers[countdown.timer_thread],
      {timers[t] : t \in {i \in TimerIds : timers[i].function = "CountdownTimer"}}>>

\* C31: cancel_timer(timer_type) lists in cancelled_timers one entry, and no
\* more, for each timer of the agent that exists, is active and is of the
\* type asked; each of these is inactive afterwards, a timer that is not
\* listed is as it was (fields, wake-ups, record), success is true exactly
\* when the list is not empty, and with an empty list nothing has changed.
C31_CancelTimer ==
    [][ \A timer_type \in TimerTypeArgs :
          /\ agent'.result.method = "cancel_timer"
          /\ agent'.result.action = timer_type
          /\ Agent_cancel_timer_type(timer_type)
          => LET cancelled_timers == agent'.result.cancelled_timers
                 named == {kind \in ActiveTimers : Requested(timer_type, kind)}
             IN /\ {cancelled_timers[i].timer_type : i \in DOMAIN cancelled_timers} = named
                /\ Len(cancelled_timers) = Cardinality(named)
                /\ "pomodoro" \in named => ~pomodoro'.active
                /\ "countdown" \in named => ~countdown'.active
                /\ "pomodoro" \notin named => PomodoroState' = PomodoroState
                /\ "countdown" \notin named => CountdownState' = CountdownState
                /\ agent'.result.success = (named # {})
                /\ named = {} => /\ pomodoro' = pomodoro /\ countdown' = countdown
                                 /\ timers' = timers /\ file' = file ]_vars

\* cancel_timer("Countdown") has cancelled the countdown and left the
\* Pomodoro timer counting.
C31_Witness ==
    /\ agent.result.method = "cancel_timer"
    /\ agent.result.action = "Countdown"
    /\ agent.result.success
    /\ Len(agent.result.cancelled_timers) = 1
    /\ agent.result.cancelled_timers[1].timer_type = "countdown"
    /\ ~countdown.active
    /\ pomodoro.active /\ pomodoro.timer_thread \in Scheduled

\* C32: process_timer_command, given a command of its test, calls the
\* operation the command names and returns success true: a set-timer
\* command leaves the countdown timer active, "start a pomodoro" the
\* Pomodoro timer; the status question returns get_timer_status's result
\* with its active_timers; "pause pomodoro" on a counting timer leaves it
\* inactive, "resume pomodoro" on a paused timer active; "cancel pomodoro
\* timer" on a counting timer leaves it inactive.
C32_ProcessTimerCommand ==
    [][ /\ \A command \in SetTimerCommands :
              Agent_process_timer_command(command)
              => agent'.result.success /\ countdown'.active
        /\ Agent_process_timer_command(StartPomodoroCommand)
              => agent'.result.success /\ pomodoro'.active
        /\ Agent_process_timer_command(StatusCommand)
              => /\ agent'.result.success
                 /\ agent'.result.method = "get_timer_status"
                 /\ agent'.result.active_timers = get_timer_status(None)
        /\ (/\ agent.pomodoro_timer # None /\ pomodoro.active
            /\ Agent_process_timer_command(PauseCommand))
              => agent'.result.success /\ ~pomodoro'.active
        /\ (/\ agent.pomodoro_timer # None /\ resume_schedules(World)
            /\ Agent_process_timer_command(ResumeCommand))
              => agent'.result.success /\ pomodoro'.active
        /\ (/\ agent.pomodoro_timer # None /\ pomodoro.active
            /\ Agent_process_timer_command(CancelPomodoroCommand))
              => agent'.result.success /\ ~pomodoro'.active ]_vars

\* C33: a _timer_complete run by a Timer thread changes the timer (fires
\* on_complete, advances completed_pomodoros or current_phase, for the
\* CountdownTimer fires on_complete) only when the end_time of the
\* countdown that is running has been reached; the handler of a wake-up
\* of an earlier countdown, cancelled or paused since, changes nothing.
C33_StaleWakeUp ==
    [][ /\ (/\ last'.op = "timer_complete"
            /\ \/ last'.cb # <<>>
               \/ pomodoro'.completed_pomodoros # pomodoro.completed_pomodoros
               \/ pomodoro'.current_phase # pomodoro.current_phase
            /\ \E t \in TimerIds : Pomodoro_timer_complete(t, TRUE))
           => pomodoro.end_time # NoTime /\ now >= pomodoro.end_time
        /\ (/\ last'.op = "countdown_timer_complete"
            /\ last'.cb # <<>>
            /\ \E t \in TimerIds : Countdown_timer_complete(t))
           => countdown.end_time # NoTime /\ now >= countdown.end_time ]_vars

\* C34: while the PomodoroTimer is active one of its wake-ups is
\* outstanding: a Timer of its is waiting or is about to run
\* _timer_complete.
C34_ActiveHasWakeUp ==
    pomodoro.active =>
       \E t \in TimerIds : /\ timers[t].function = "PomodoroTimer"
                           /\ timers[t].st \in {"waiting", "fired"}

\* C35: resume() called when a phase has just completed (the next phase is
\* entered, no countdown started for it) starts nothing: the timer stays
\* inactive and no wake-up is scheduled, so that no wake-up can complete the
\* phase that was never started.
C35_ResumeAfterCompletion ==
    [][ (Completed /\ last'.op = "resume" /\ Pomodoro_resume(TRUE))
        => ~pomodoro'.active /\ Scheduled' = Scheduled ]_vars

\* The fields of the record that describe the timer's progress.
Progress(record) ==
    [current_phase |-> record.current_phase, active |-> record.active,
     completed_pomodoros |-> record.completed_pomodoros, end_time |-> record.end_time]

\* C36: when start, pause, resume, skip, cancel or a wake-up's
\* _timer_complete has returned (without raising, the file writable), the
\* record in the file has the timer's current_phase, active,
\* completed_pomodoros and end_time if the operation changed one of them or
\* if the record had them before the operation.
C36_PersistedIsCurrent ==
    [][ (/\ last'.op \in OperationArgs \cup {"timer_complete"}
         /\ ~last'.raised
         /\ \/ Progress(pomodoro') # Progress(pomodoro)
            \/ file # NoFile /\ Progress(file[1]) = Progress(pomodoro)
         /\ \/ \E phase \in PhaseArgs : Pomodoro_start(phase, TRUE)
            \/ Pomodoro_pause(TRUE) \/ Pomodoro_resume(TRUE)
            \/ Pomodoro_cancel(TRUE) \/ Pomodoro_skip(TRUE)
            \/ WakeUp(TRUE))
        => file' # NoFile /\ Progress(file'[1]) = Progress(pomodoro') ]_vars

\* C37: a timer with the table enabled has saved its state (to the table,
\* or to the file after a ClientError of put_item), and a new timer is
\* constructed with the table enabled and working: the record _load_state
\* finds is the one of that last save.
C37_LoadsLatestSave ==
    [][ (/\ last.op \in OperationArgs \cup {"timer_complete"}
         /\ last.cb # <<>> /\ ~last.raised
         /\ pomodoro.use_aws /\ pomodoro.table # None
         /\ last'.op = "init" /\ now' = now
         /\ \A t \in TimerIds : timers'[t].st # "fired"
         /\ Persist_restart(TRUE, "ok", NoFailure))
        => /\ stored_state(World) = <<StateDict(pomodoro)>>
           /\ pomodoro'.current_phase = pomodoro.current_phase
           /\ pomodoro'.completed_pomodoros = pomodoro.completed_pomodoros ]_vars

\* C38: set_timer(minutes, "pomodoro") returns success true only if the
\* call started a countdown (the timer was not active before it and is
\* active after it), and control_pomodoro("skip") returns success true only
\* if the call advanced the phase.
C38_SuccessMeansDone ==
    [][ /\ (/\ agent'.result.method = "set_timer" /\ agent'.result.success
            /\ Agent_set_timer)
           => /\ ~(agent.pomodoro_timer # None /\ pomodoro.active)
              /\ pomodoro'.active
        /\ (/\ agent'.result.method = "control_pomodoro"
            /\ agent'.result.action = "skip" /\ agent'.result.success
            /\ Agent_control_pomodoro("skip"))
           => /\ pomodoro.active
              /\ pomodoro'.current_phase # pomodoro.current_phase ]_vars

\* C39: when cancel_timer() or cancel_timer("pomodoro") returns, the
\* agent's Pomodoro timer, whatever state it was in, is not active, is in
\* phase idle and has nothing resume() could continue.
C39_CancelLeavesIdle ==
    [][ \A timer_type \in {None, "pomodoro"} :
          (/\ agent.pomodoro_timer # None
           /\ agent'.result.method = "cancel_timer"
           /\ agent'.result.action = timer_type
           /\ Agent_cancel_timer_type(timer_type))
          => /\ ~pomodoro'.active
             /\ pomodoro'.current_phase = "idle"
             /\ pomodoro'.end_time = NoTime ]_vars

\* C40: a PomodoroTimer constructed with durations and an interval, with
\* whatever record in the file, has these durations and this interval.
C40_ConstructorConfig ==
    [][ \A args \in ConstructorArgs :
          (/\ last'.op = "init"
           /\ Commit(load_state([World EXCEPT !.self = PomodoroTimer_init(args),
                                              !.timers = [i \in TimerIds |-> FreeTimer]]),
                     "init"))
          => /\ pomodoro'.work_minutes = args.work_minutes
             /\ pomodoro'.short_break_minutes = args.short_break_minutes
             /\ pomodoro'.long_break_minutes = args.long_break_minutes
             /\ pomodoro'.long_break_interval = args.long_break_interval ]_vars

====
